---- MODULE Spec2Model ----
(***************************************************************************)
(* A model of the shard-local storage and indexing subsystem of the tsdb   *)
(* package: the Shard coordinator (shard.go), the per-measurement field    *)
(* schema MeasurementFields (shard.go) and the tsi1 Series File            *)
(* (mapper.go).                                                            *)
(*                                                                         *)
(* The module holds several specifications over one set of variables; a   *)
(* specification leaves the variables of the other components unchanged.  *)
(*   SpecShardSeq  one caller drives the shard (sequences of calls)        *)
(*   SpecShard     two callers drive the shard concurrently                *)
(*   SpecWrite     the write path on an open, enabled shard                *)
(*   SpecFields    concurrent MeasurementFields.CreateFieldIfNotExists     *)
(*   SpecSeries    concurrent SeriesFile.CreateSeriesListIfNotExists       *)
(***************************************************************************)
EXTENDS Integers, Sequences, FiniteSets, TLC

VARIABLES
    \* ---- Shard (shard.go:104-128) ----
    engine,          \* s.engine: "nil" or "open"
    index,           \* s.index: "nil" or "open"
    enabled,         \* s.enabled
    engineEnabled,   \* the flag engine.SetEnabled sets inside the engine
    closing,         \* TRUE once the channel s.closing has been closed
    EnableOnOpen,    \* s.EnableOnOpen
    monitors,        \* the running monitor goroutines
    readers,         \* the callers that hold the read side of s.mu
    pc,              \* position of each caller inside its current call
    op,              \* the Shard method each caller runs or ran last
    res,             \* what the caller's last call returned
    \* ---- index and field schema seen by the write path ----
    series,          \* the series of the index: set of [name, tags]
    mfields,         \* measurement -> (field name -> [ID, Type])
    MaxValuesPerTag, \* s.options.Config.MaxValuesPerTag
    stats,           \* s.stats (ShardStatistics)
    call,            \* inputs and outcome of the last WritePoints that ran
    \* ---- callers of MeasurementFields.CreateFieldIfNotExists ----
    fpc,             \* "idle", or "create": between the two locked sections
    farg,            \* [name, typ] of the caller's current or last call
    fres,            \* what the caller's last call returned
    \* ---- Series File ----
    sfdata,          \* f.data[:f.size]: the bytes of the file
    sfinmem,         \* f.seriesMap.inmem: key bytes -> offset
    sfdisk,          \* the series map file: key bytes -> offset
    sfdiskN,         \* the count in the header of the map file (seriesMap.n)
    sfmaxOffset,     \* the max offset in its header (seriesMap.maxOffset)
    sfmapdata,       \* seriesMap.data: "mapped" or "nil"
    sfstate,         \* "open", "closed", or "broken": f.seriesMap is a map
                     \* whose open failed (no in-memory map)
    spc,             \* "idle", or "write": between the read and the write lock
    sarg,            \* the series list of the caller's current or last call
    soffsets,        \* the offsets the caller found under the read lock
    sres,            \* [offsets, err] the caller's last call returned
    \* ---- in-memory index ----
    lastID,          \* i.lastID
    iseries,         \* i.series: key -> [Key, ID, Tags, m: its Measurement]
    measurements,    \* i.measurements: name -> Measurement object
    mobjs,           \* the Measurement objects allocated so far
    ipc,             \* position of each caller inside CreateSeriesIndexIfNotExists
    iarg,            \* [s, m]: the series the caller creates, the Measurement it holds
    ires,            \* the ID of the series the caller's last create returned
    assigned,        \* every <<key, ID>> the index has assigned
    added,           \* the ids a Measurement was handed since its last drop
    \* ---- series id iterators ----
    itrKind,         \* "intersect", "union", "merge", or "none"
    itrIn,           \* the element lists the source iterators were made of
    itrItrs,         \* itr.itrs: what each source iterator has yet to yield
    itrBuf,          \* itr.buf: one element per source
    itrOut,          \* the elements Next has returned so far
    itrEOF,          \* Next has returned the zero element and no error
    itrErr,          \* Next has returned an error
    \* ---- tag value match ----
    tagValues,       \* series id -> its value for the key, "" when it lacks the key
    rxMatches,       \* the regex: the strings it matches
    matchItr,        \* what MatchTagValueSeriesIDIterator returned
    \* ---- Store ----
    stShards,        \* s.shards: [nil, m], m the map of shard id to Shard object
    stOpen,          \* the Shard objects that are open
    stGen,           \* the number of Shard objects NewShard has made
    stClosed,        \* Store.Close has returned nil and Store.Open has not run since
    stpc,            \* where each caller is in Store.WriteToShard
    stsh,            \* sh: the Shard object the caller looked up
    stres,           \* what the caller's last call of the store returned
    \* ---- SeriesFile.SeriesIDIterator ----
    sitSize,         \* f.size
    sitW,            \* the bytes in the buffer of f.w
    sitRanges,       \* newKeyRanges of the create that holds the write lock
    sitpc,           \* where the create is: "idle" or "flush"
    sitItr,          \* the seriesFileIterator: its offset, n = len(itr.data), what
                     \* Next has returned, and the offsets of the series that
                     \* existed and that were being created when it was made
    \* ---- FieldCodec ----
    cdIn,            \* the fields of the point, in the order the encoder ranges
    cdBuf,           \* the encoded record
    cdOut,           \* what DecodeFields returned
    \* ---- Index.MeasurementsByExpr ----
    mbTags,          \* measurement name -> the values its series have for the key
    mbExpr,          \* the expression
    mbRes            \* what MeasurementsByExpr returned

shardVars  == <<engine, index, enabled, engineEnabled, closing, EnableOnOpen,
                monitors, readers, pc, op, res>>
writeVars  == <<series, mfields, MaxValuesPerTag, stats, call>>
fieldVars  == <<fpc, farg, fres>>
seriesVars == <<sfdata, sfinmem, sfdisk, sfdiskN, sfmaxOffset, sfmapdata, sfstate,
                spc, sarg, soffsets, sres>>
indexVars  == <<lastID, iseries, measurements, mobjs, ipc, iarg, ires, assigned,
                added>>
iterVars   == <<itrKind, itrIn, itrItrs, itrBuf, itrOut, itrEOF, itrErr, tagValues,
                rxMatches, matchItr>>
storeVars  == <<stShards, stOpen, stGen, stClosed, stpc, stsh, stres>>
sitVars    == <<sitSize, sitW, sitRanges, sitpc, sitItr>>
codecVars  == <<cdIn, cdBuf, cdOut>>
exprVars   == <<mbTags, mbExpr, mbRes>>
restVars   == <<storeVars, sitVars, codecVars, exprVars>>
vars == <<shardVars, writeVars, fieldVars, seriesVars, indexVars, iterVars, restVars>>

EmptyMap == [x \in {} |-> x]

----------------------------------------------------------------------------
(* Bounds of the model *)

\* at most this many monitor goroutines are started and still running
MaxMonitors == 2
\* largest configured max-values-per-tag
MaxLimit == 1
\* WritePoints calls that pass the state check, per behaviour
MaxWriteReq == 2

Callers == {"c1", "c2"}

Ops == {"WritePoints", "DeleteSeriesRange", "DeleteMeasurement",
        "SeriesN", "WriteTo", "CreateIterator"}

\* the operations of the shard that go to the engine without a call of ready()
QueryOps == {"Measurement", "Measurements", "MeasurementsByExpr",
             "MeasurementFields", "CreateSnapshot"}

\* A panic (nil dereference) ends the program: nothing runs after it.
NoPanic == \A t \in Callers : pc[t] # "panic"

----------------------------------------------------------------------------
(* Points, tags and fields of the write path *)

timeBytes == "time"

Tag(k, v) == [Key |-> k, Value |-> v]
Fld(k, t) == [Key |-> k, Type |-> t]
Pt(n, tg, fl) == [name |-> n, tags |-> tg, fields |-> fl]

FieldTypes == {"Float", "Integer", "String", "Boolean"}

pA    == Pt("cpu", <<Tag("host", "A")>>, <<Fld("value", "Float")>>)
pB    == Pt("cpu", <<Tag("host", "B")>>, <<Fld("value", "Float")>>)
pAint == Pt("cpu", <<Tag("host", "A")>>, <<Fld("value", "Integer")>>)
pBint == Pt("cpu", <<Tag("host", "B")>>, <<Fld("value", "Integer")>>)
pTime == Pt("cpu", <<Tag("host", "A")>>, <<Fld("time", "Float")>>)
pX    == Pt("cpu", <<Tag("dc", "X")>>, <<Fld("value", "Float")>>)
pY    == Pt("cpu", <<Tag("dc", "Y")>>, <<Fld("value", "Float")>>)
pMem  == Pt("mem", <<Tag("host", "A"), Tag("time", "T")>>,
                   <<Fld("time", "Integer"), Fld("idle", "Boolean")>>)

\* the batches the callers of the write path draw from
Batches == { <<>>, <<pA>>, <<pB>>, <<pAint>>, <<pTime>>, <<pMem>>,
             <<pB, pA>>, <<pBint, pA>>, <<pA, pAint>>, <<pMem, pA>>,
             <<pB, pMem>>, <<pTime, pB>>, <<pX, pY>> }

\* the batches drawn while the lifecycle of the shard is explored
SmallBatches == { <<pA>> }

\* What the engine, an external collaborator, answers during one WritePoints:
\* oc[i] is the result of CreateSeriesIfNotExists for the i-th point of the
\* batch, mfNil says that MeasurementFields returns nil for a measurement
\* without a field schema, engErr that engine.WritePoints fails.
Env(o, n, e) == [oc |-> o, mfNil |-> n, engErr |-> e]
AllOK(b) == [i \in 1..Len(b) |-> "ok"]
Envs(b) ==
    { Env(AllOK(b), n, FALSE) : n \in BOOLEAN }
    \cup { Env(AllOK(b), FALSE, TRUE) }
    \cup { Env([AllOK(b) EXCEPT ![i] = o], FALSE, FALSE) :
             i \in 1..Len(b), o \in {"limit", "err"} }

----------------------------------------------------------------------------
(* The index as the shard sees it through the engine *)

SeriesOf(p) == [name |-> p.name, tags |-> p.tags]

\* Shard.Measurement: the measurement exists in the index
Measurement(S, name) == \E s \in S : s.name = name

HasTagKeyValue(S, name, k, v) ==
    \E s \in S : s.name = name /\ \E i \in 1..Len(s.tags) : s.tags[i] = Tag(k, v)

TagValuesOf(S, name, k) ==
    UNION { { s.tags[i].Value : i \in { j \in 1..Len(s.tags) : s.tags[j].Key = k } } :
            s \in { x \in S : x.name = name } }

CardinalityBytes(S, name, k) == Cardinality(TagValuesOf(S, name, k))

----------------------------------------------------------------------------
(* MeasurementFields: the field schema of one measurement,                 *)
(* a map field name -> [ID, Type]                                          *)

uint8(n) == n % 256

\* CreateFieldIfNotExists, the part under the read lock: "absent" means the
\* call goes on to the write lock.
fieldCheck(flds, name, typ) ==
    IF name \in DOMAIN flds
      THEN IF flds[name].Type # typ THEN "ErrFieldTypeConflict" ELSE "nil"
      ELSE "absent"

\* CreateFieldIfNotExists, the part under the write lock: [fields, err]
fieldCreate(flds, name, typ) ==
    IF name \in DOMAIN flds
      THEN [fields |-> flds, err |-> "nil"]
      ELSE [fields |-> flds @@ (name :> [ID   |-> uint8(Cardinality(DOMAIN flds) + 1),
                                         Type |-> typ]),
            err |-> "nil"]

\* CreateFieldIfNotExists run by one caller without interference
CreateFieldIfNotExists(flds, name, typ) ==
    LET c == fieldCheck(flds, name, typ)
    IN  IF c = "absent" THEN fieldCreate(flds, name, typ)
                        ELSE [fields |-> flds, err |-> c]

----------------------------------------------------------------------------
(* Shard.validateSeriesAndFields and Shard.createFieldsAndMeasurements     *)

dropTime(s) == SelectSeq(s, LAMBDA e : e.Key # timeBytes)

\* the point after the tag and the field named "time" have been removed
stripTime(p) == Pt(p.name, dropTime(p.tags), dropTime(p.fields))

validField(p) == \E i \in 1..Len(p.fields) : p.fields[i].Key # timeBytes

\* first loop: the point would add a value to a tag key that is at the limit
dropPoint(S, p, max) ==
    /\ Measurement(S, p.name)
    /\ \E i \in 1..Len(p.tags) :
          /\ ~HasTagKeyValue(S, p.name, p.tags[i].Key, p.tags[i].Value)
          /\ CardinalityBytes(S, p.name, p.tags[i].Key) >= max

\* first loop: the entries [pos, p] of the batch that survive the limit
limitCheck(S, ents, max) ==
    IF max > 0 THEN SelectSeq(ents, LAMBDA e : ~dropPoint(S, e.p, max))
               ELSE ents

FieldCreate(m, f) == [Measurement |-> m, Name |-> f.Key, Type |-> f.Type]

\* a type check with the comparison inverted
typeConflictInverted(mf, p) ==
    \E j \in 1..Len(p.fields) :
        /\ p.fields[j].Key \in DOMAIN mf
        /\ mf[p.fields[j].Key].Type = p.fields[j].Type

\* second loop, one point whose measurement has a field schema mf:
\* a known field of another type is a conflict, unknown fields are to create
typeConflict(mf, p) ==
    \E j \in 1..Len(p.fields) :
        /\ p.fields[j].Key \in DOMAIN mf
        /\ mf[p.fields[j].Key].Type # p.fields[j].Type

newFields(mf, p) ==
    LET unknown == SelectSeq(p.fields, LAMBDA f : f.Key \notin DOMAIN mf)
    IN  [j \in 1..Len(unknown) |-> FieldCreate(p.name, unknown[j])]

allFields(p) == [j \in 1..Len(p.fields) |-> FieldCreate(p.name, p.fields[j])]

\* second loop over the entries from position i on; acc is
\* [points, kept, fieldsToCreate, dropped, fatal, series, mfields], where kept
\* lists the positions in the batch of the points in points
RECURSIVE validateLoop(_, _, _, _)
validateLoop(ents, i, acc, env) ==
    IF i > Len(ents) \/ acc.fatal # "nil" THEN acc
    ELSE
      LET pos == ents[i].pos
          p   == stripTime(ents[i].p)
      IN
      IF ~validField(ents[i].p) THEN validateLoop(ents, i + 1, acc, env)
      ELSE IF env.oc[pos] = "limit"
        THEN validateLoop(ents, i + 1, [acc EXCEPT !.dropped = @ + 1], env)
      ELSE IF env.oc[pos] = "err"
        THEN [acc EXCEPT !.fatal = "ErrCreateSeries"]
      ELSE
        LET acc1 == [acc EXCEPT !.series = @ \cup {SeriesOf(p)}]
        IN
        IF p.name \notin DOMAIN acc.mfields /\ env.mfNil
          THEN \* mf == nil: all fields are new; the point is not kept
               validateLoop(ents, i + 1,
                   [acc1 EXCEPT !.fieldsToCreate = @ \o allFields(p)], env)
          ELSE
            LET mfs == IF p.name \in DOMAIN acc.mfields THEN acc.mfields
                       ELSE acc.mfields @@ (p.name :> EmptyMap)
                mf  == mfs[p.name]
                acc2 == [acc1 EXCEPT !.mfields = mfs]
            IN
            IF typeConflict(mf, p)
              THEN [acc2 EXCEPT !.fatal = "ErrFieldTypeConflict",
                                !.fieldsToCreate = <<>>]
              ELSE validateLoop(ents, i + 1,
                     [acc2 EXCEPT !.fieldsToCreate = @ \o newFields(mf, p),
                                  !.points = Append(@, p),
                                  !.kept = Append(@, pos)], env)

\* [points, kept, fieldsToCreate, dropped, fatal, series, mfields]; dropped > 0 with
\* fatal = "nil" is the PartialWriteError{Dropped: dropped}
validateSeriesAndFields(S, mfs, max, batch, env) ==
    LET ents  == [i \in 1..Len(batch) |-> [pos |-> i, p |-> batch[i]]]
        kept  == limitCheck(S, ents, max)
    IN  validateLoop(kept, 1,
            [points |-> <<>>, kept |-> <<>>, fieldsToCreate |-> <<>>,
             dropped |-> Len(ents) - Len(kept), fatal |-> "nil",
             series |-> S, mfields |-> mfs], env)

\* [mfields, err]
RECURSIVE createFieldsAndMeasurements(_, _)
createFieldsAndMeasurements(mfs, ftc) ==
    IF ftc = <<>> THEN [mfields |-> mfs, err |-> "nil"]
    ELSE
      LET f    == Head(ftc)
          mfs1 == IF f.Measurement \in DOMAIN mfs THEN mfs
                  ELSE mfs @@ (f.Measurement :> EmptyMap)
          r    == CreateFieldIfNotExists(mfs1[f.Measurement], f.Name, f.Type)
          mfs2 == [mfs1 EXCEPT ![f.Measurement] = r.fields]
      IN  IF r.err # "nil" THEN [mfields |-> mfs2, err |-> r.err]
          ELSE createFieldsAndMeasurements(mfs2, Tail(ftc))

----------------------------------------------------------------------------
(* The Shard: lifecycle *)

NoCall == [batch |-> <<>>, env |-> Env(<<>>, FALSE, FALSE), handed |-> FALSE,
           points |-> <<>>, kept |-> <<>>, dropped |-> 0, err |-> "none"]

NoStats == [WriteReq |-> 0, WriteReqOK |-> 0, WriteReqErr |-> 0,
            FieldsCreated |-> 0, WritePointsErr |-> 0,
            WritePointsDropped |-> 0, WritePointsOK |-> 0]

\* NewShard
InitShard ==
    /\ engine = "nil" /\ index = "nil"
    /\ enabled = FALSE /\ engineEnabled = FALSE
    /\ closing = FALSE
    /\ EnableOnOpen = TRUE
    /\ monitors = {}
    /\ readers = {}
    /\ pc = [t \in Callers |-> "idle"]
    /\ op = [t \in Callers |-> "none"]
    /\ res = [t \in Callers |-> "none"]

InitIndex ==
    /\ series = {}
    /\ mfields = EmptyMap
    /\ MaxValuesPerTag \in 0..MaxLimit
    /\ stats = NoStats
    /\ call = NoCall

\* the write lock of s.mu can be taken: no caller holds the read side
\* (every holder of the write side is one atomic step of the model)
canLock == readers = {}

\* the call of caller t returns r
return(t, r) ==
    /\ pc' = [pc EXCEPT ![t] = "idle"]
    /\ res' = [res EXCEPT ![t] = r]

\* a state check that forgets the enabled flag
readyIgnoresEnabled ==
    IF engine = "nil" THEN "ErrEngineClosed" ELSE "nil"

\* Shard.ready
ready ==
    IF engine = "nil" THEN "ErrEngineClosed"
    ELSE IF ~enabled THEN "ErrShardDisabled"
    ELSE "nil"

\* a close that leaves the channel s.closing open
closeSilent(engErr, idxErr) ==
    [engine  |-> IF engErr THEN engine ELSE "nil",
     index   |-> IF idxErr THEN index ELSE "nil",
     closing |-> closing,
     err     |-> IF engine = "nil" \/ ~engErr THEN "nil" ELSE "ErrEngineClose"]

\* Shard.close, with the results of engine.Close and index.Close:
\* [engine, index, closing, err]; err = "panic" is the call of Close on the
\* nil index
close(engErr, idxErr) ==
    IF engine = "nil"
      THEN [engine |-> engine, index |-> index, closing |-> closing, err |-> "nil"]
      ELSE [engine  |-> IF engErr THEN engine ELSE "nil",
            index   |-> IF idxErr THEN index ELSE "nil",
            closing |-> TRUE,
            err     |-> IF index = "nil" THEN "panic"
                        ELSE IF engErr THEN "ErrEngineClose" ELSE "nil"]

applyClose(t, c) ==
    /\ engine' = c.engine
    /\ index' = c.index
    /\ closing' = c.closing
    /\ engineEnabled' = IF c.engine = "nil" THEN FALSE ELSE engineEnabled
    /\ pc' = [pc EXCEPT ![t] = IF c.err = "panic" THEN "panic" ELSE "idle"]
    /\ res' = [res EXCEPT ![t] = c.err]

\* the goroutines that can run Shard.monitor, and the one `go s.monitor()`
\* starts
MonitorIDs == 1..MaxMonitors
newMonitor == CHOOSE i \in MonitorIDs \ monitors :
                  \A j \in MonitorIDs \ monitors : i <= j

\* Shard.Open, the closure that runs under the write lock. o is what the
\* environment lets happen: "ok", "errIndex" (NewIndex or idx.Open fails),
\* "errEngine" (NewEngine, e.Open or LoadMetadataIndex fails).
Open(t, o) ==
    /\ NoPanic /\ pc[t] \in {"idle", "reopen"} /\ canLock
    /\ op' = [op EXCEPT ![t] = IF pc[t] = "reopen" THEN "Restore" ELSE "Open"]
    /\ res' = [res EXCEPT ![t] = "pending"]
    /\ IF engine # "nil"
         THEN \* the shard is already open
              /\ o = "ok"
              /\ pc' = [pc EXCEPT ![t] = "wasopen"]
              /\ UNCHANGED <<engine, index, engineEnabled, monitors>>
         ELSE CASE o = "ok" ->
                     /\ Cardinality(monitors) < MaxMonitors
                     /\ index' = "open"
                     /\ engine' = "open"
                     /\ engineEnabled' = FALSE
                     /\ monitors' = monitors \cup {newMonitor}
                     /\ pc' = [pc EXCEPT ![t] = "opened"]
                [] o = "errIndex" ->
                     /\ pc' = [pc EXCEPT ![t] = "openfail"]
                     /\ UNCHANGED <<engine, index, engineEnabled, monitors>>
                [] o = "errEngine" ->
                     /\ index' = "open"
                     /\ pc' = [pc EXCEPT ![t] = "openfail"]
                     /\ UNCHANGED <<engine, engineEnabled, monitors>>
    /\ UNCHANGED <<enabled, closing, EnableOnOpen, readers>>
    /\ UNCHANGED <<writeVars, fieldVars, iterVars, restVars, seriesVars, indexVars>>

\* Shard.Open after the closure returned nil: SetEnabled(true) if EnableOnOpen
OpenEnable(t) ==
    /\ NoPanic /\ pc[t] \in {"opened", "wasopen"}
    /\ IF EnableOnOpen
         THEN /\ canLock
              /\ enabled' = TRUE
              /\ engineEnabled' = IF engine # "nil" THEN TRUE ELSE engineEnabled
         ELSE UNCHANGED <<enabled, engineEnabled>>
    /\ return(t, "nil")
    /\ UNCHANGED <<engine, index, closing, EnableOnOpen, monitors, readers, op>>
    /\ UNCHANGED <<writeVars, fieldVars, iterVars, restVars, seriesVars, indexVars>>

\* Shard.Open after the closure returned an error: s.close(), without the lock
OpenFail(t, engErr, idxErr) ==
    /\ NoPanic /\ pc[t] = "openfail"
    /\ LET c == close(engErr, idxErr)
       IN  applyClose(t, [c EXCEPT !.err = IF @ = "panic" THEN @ ELSE "ErrOpen"])
    /\ UNCHANGED <<enabled, EnableOnOpen, monitors, readers, op>>
    /\ UNCHANGED <<writeVars, fieldVars, iterVars, restVars, seriesVars, indexVars>>

\* Shard.Close
Close(t, engErr, idxErr) ==
    /\ NoPanic /\ pc[t] = "idle" /\ canLock
    /\ op' = [op EXCEPT ![t] = "Close"]
    /\ applyClose(t, close(engErr, idxErr))
    /\ UNCHANGED <<enabled, EnableOnOpen, monitors, readers>>
    /\ UNCHANGED <<writeVars, fieldVars, iterVars, restVars, seriesVars, indexVars>>

\* Shard.Restore, the call of engine.Restore under the write lock
Restore(t, err) ==
    /\ NoPanic /\ pc[t] = "idle" /\ canLock
    /\ op' = [op EXCEPT ![t] = "Restore"]
    /\ IF engine = "nil"
         THEN /\ pc' = [pc EXCEPT ![t] = "panic"]
              /\ res' = [res EXCEPT ![t] = "panic"]
         ELSE IF err
         THEN return(t, "ErrRestore")
         ELSE /\ pc' = [pc EXCEPT ![t] = "restored"]
              /\ res' = [res EXCEPT ![t] = "pending"]
    /\ UNCHANGED <<engine, index, enabled, engineEnabled, closing, EnableOnOpen,
                   monitors, readers>>
    /\ UNCHANGED <<writeVars, fieldVars, iterVars, restVars, seriesVars, indexVars>>

\* Shard.Restore, its call of s.Close(); s.Open() follows when it returns nil
RestoreClose(t, engErr, idxErr) ==
    /\ NoPanic /\ pc[t] = "restored" /\ canLock
    /\ LET c == close(engErr, idxErr)
       IN  /\ engine' = c.engine
           /\ index' = c.index
           /\ closing' = c.closing
           /\ engineEnabled' = IF c.engine = "nil" THEN FALSE ELSE engineEnabled
           /\ pc' = [pc EXCEPT ![t] = CASE c.err = "panic" -> "panic"
                                         [] c.err = "nil" -> "reopen"
                                         [] OTHER -> "idle"]
           /\ res' = [res EXCEPT ![t] = IF c.err = "nil" THEN "pending" ELSE c.err]
    /\ UNCHANGED <<enabled, EnableOnOpen, monitors, readers, op>>
    /\ UNCHANGED <<writeVars, fieldVars, iterVars, restVars, seriesVars, indexVars>>

\* Shard.SetEnabled
SetEnabled(t, b) ==
    /\ NoPanic /\ pc[t] = "idle" /\ canLock
    /\ enabled' = b
    /\ engineEnabled' = IF engine # "nil" THEN b ELSE engineEnabled
    /\ op' = [op EXCEPT ![t] = "SetEnabled"]
    /\ return(t, "nil")
    /\ UNCHANGED <<engine, index, closing, EnableOnOpen, monitors, readers>>
    /\ UNCHANGED <<writeVars, fieldVars, iterVars, restVars, seriesVars, indexVars>>

\* the owner of the shard assigns the exported field EnableOnOpen
SetEnableOnOpen(b) ==
    /\ NoPanic /\ engine = "nil" /\ EnableOnOpen # b
    /\ \A t \in Callers : pc[t] = "idle"
    /\ EnableOnOpen' = b
    /\ UNCHANGED <<engine, index, enabled, engineEnabled, closing, monitors,
                   readers, pc, op, res>>
    /\ UNCHANGED <<writeVars, fieldVars, iterVars, restVars, seriesVars, indexVars>>

\* Shard.monitor of goroutine i returns once s.closing is closed
MonitorExit(i) ==
    /\ NoPanic /\ i \in monitors /\ closing
    /\ monitors' = monitors \ {i}
    /\ UNCHANGED <<engine, index, enabled, engineEnabled, closing, EnableOnOpen,
                   readers, pc, op, res>>
    /\ UNCHANGED <<writeVars, fieldVars, iterVars, restVars, seriesVars, indexVars>>

----------------------------------------------------------------------------
(* The Shard: writes, deletes and queries *)

InflightWrites ==
    Cardinality({ t \in Callers : op[t] = "WritePoints"
                                  /\ pc[t] \in {"checked", "locked"} })

\* the call of s.ready() that opens WritePoints, DeleteSeriesRange,
\* DeleteMeasurement, SeriesN, WriteTo and CreateIterator
Ready(t, o) ==
    /\ NoPanic /\ pc[t] = "idle"
    /\ o = "WritePoints" => stats.WriteReq + InflightWrites < MaxWriteReq
    /\ op' = [op EXCEPT ![t] = o]
    /\ IF ready = "nil"
         THEN /\ pc' = [pc EXCEPT ![t] = "checked"]
              /\ res' = [res EXCEPT ![t] = "pending"]
         ELSE return(t, ready)
    /\ UNCHANGED <<engine, index, enabled, engineEnabled, closing, EnableOnOpen,
                   monitors, readers>>
    /\ UNCHANGED <<writeVars, fieldVars, iterVars, restVars, seriesVars, indexVars>>

\* s.mu.RUnlock() left undone
RUnlockMissing(t) == readers

\* s.mu.RUnlock(): the holders of the read lock once t gave it back
RUnlock(t) == readers \ {t}

\* WritePoints: s.mu.RLock()
RLock(t) ==
    /\ NoPanic /\ pc[t] = "checked" /\ op[t] = "WritePoints"
    /\ pc' = [pc EXCEPT ![t] = "locked"]
    /\ readers' = readers \cup {t}
    /\ UNCHANGED <<engine, index, enabled, engineEnabled, closing, EnableOnOpen,
                   monitors, op, res>>
    /\ UNCHANGED <<writeVars, fieldVars, iterVars, restVars, seriesVars, indexVars>>

\* WritePoints from the increment of WriteReq to the return, under the read
\* lock: [series, mfields, stats, call]; call.handed says that
\* engine.WritePoints was called, with call.points, the points at the
\* positions call.kept of the batch
writePoints(batch, env) ==
    LET st0 == [stats EXCEPT !.WriteReq = @ + 1]
        v   == validateSeriesAndFields(series, mfields, MaxValuesPerTag, batch, env)
        st1 == [st0 EXCEPT !.WritePointsDropped = @ + v.dropped]
        c   == createFieldsAndMeasurements(v.mfields, v.fieldsToCreate)
        st2 == [st1 EXCEPT !.FieldsCreated = @ + Len(v.fieldsToCreate)]
        n   == Len(v.points)
        out(sr, mf, st, handed, err) ==
            [series |-> sr, mfields |-> mf, stats |-> st,
             call |-> [batch |-> batch, env |-> env, handed |-> handed,
                       points |-> IF handed THEN v.points ELSE <<>>,
                       kept |-> IF handed THEN v.kept ELSE <<>>,
                       dropped |-> v.dropped, err |-> err]]
    IN  IF v.fatal # "nil" THEN out(v.series, v.mfields, st1, FALSE, v.fatal)
        ELSE IF c.err # "nil" THEN out(v.series, c.mfields, st2, FALSE, c.err)
        ELSE IF env.engErr
          THEN out(v.series, c.mfields,
                   [st2 EXCEPT !.WritePointsErr = @ + n, !.WriteReqErr = @ + 1],
                   TRUE, "ErrEngineWrite")
          ELSE out(v.series, c.mfields,
                   [st2 EXCEPT !.WritePointsOK = @ + n, !.WriteReqOK = @ + 1],
                   TRUE, IF v.dropped > 0 THEN "PartialWriteError" ELSE "nil")

WritePointsBody(t, batch, env) ==
    /\ NoPanic /\ pc[t] = "locked"
    /\ readers' = RUnlock(t)
    /\ IF engine = "nil"
         THEN \* s.engine is nil: the first call through it panics
              /\ pc' = [pc EXCEPT ![t] = "panic"]
              /\ res' = [res EXCEPT ![t] = "panic"]
              /\ stats' = [stats EXCEPT !.WriteReq = @ + 1]
              /\ UNCHANGED <<series, mfields, call>>
         ELSE LET w == writePoints(batch, env)
              IN  /\ series' = w.series
                  /\ mfields' = w.mfields
                  /\ stats' = w.stats
                  /\ call' = w.call
                  /\ return(t, w.call.err)
    /\ UNCHANGED <<engine, index, enabled, engineEnabled, closing, EnableOnOpen,
                   monitors, op, MaxValuesPerTag>>
    /\ UNCHANGED <<fieldVars, iterVars, restVars, seriesVars, indexVars>>

\* DeleteSeriesRange, DeleteMeasurement, SeriesN, WriteTo, CreateIterator after
\* ready(): the call through s.engine, made without the lock
EngineCall(t) ==
    /\ NoPanic /\ pc[t] = "checked" /\ op[t] # "WritePoints"
    /\ IF engine = "nil"
         THEN /\ pc' = [pc EXCEPT ![t] = "panic"]
              /\ res' = [res EXCEPT ![t] = "panic"]
         ELSE /\ pc' = [pc EXCEPT ![t] = "inEngine"]
              /\ UNCHANGED res
    /\ UNCHANGED <<engine, index, enabled, engineEnabled, closing, EnableOnOpen,
                   monitors, readers, op>>
    /\ UNCHANGED <<writeVars, fieldVars, iterVars, restVars, seriesVars, indexVars>>

\* Measurement, Measurements, MeasurementsByExpr, MeasurementFields and
\* CreateSnapshot: the call through s.engine; CreateSnapshot makes it under
\* the read lock
Query(t, o) ==
    /\ NoPanic /\ pc[t] = "idle"
    /\ op' = [op EXCEPT ![t] = o]
    /\ IF engine = "nil"
         THEN /\ pc' = [pc EXCEPT ![t] = "panic"]
              /\ res' = [res EXCEPT ![t] = "panic"]
              /\ UNCHANGED readers
         ELSE /\ pc' = [pc EXCEPT ![t] = "inEngine"]
              /\ res' = [res EXCEPT ![t] = "pending"]
              /\ readers' = IF o = "CreateSnapshot" THEN readers \cup {t} ELSE readers
    /\ UNCHANGED <<engine, index, enabled, engineEnabled, closing, EnableOnOpen,
                   monitors>>
    /\ UNCHANGED <<writeVars, fieldVars, iterVars, restVars, seriesVars, indexVars>>

\* what a delete that the engine carried out leaves of the index
deleted(o, s) ==
    CASE o = "DeleteMeasurement" -> { x \in series : x.name # s.name }
      [] o = "DeleteSeriesRange" -> series \ {s}
      [] OTHER -> series

\* the engine returns from the call; s is the series the delete names
EngineReturn(t, err, s) ==
    /\ NoPanic /\ pc[t] = "inEngine"
    /\ op[t] \notin {"DeleteMeasurement", "DeleteSeriesRange"} => s = SeriesOf(pA)
    /\ series' = IF err THEN series ELSE deleted(op[t], s)
    /\ mfields' = IF ~err /\ op[t] = "DeleteMeasurement"
                    THEN [m \in DOMAIN mfields \ {s.name} |-> mfields[m]]
                    ELSE mfields
    /\ return(t, IF err THEN "ErrEngine" ELSE "nil")
    /\ readers' = RUnlock(t)
    /\ UNCHANGED <<engine, index, enabled, engineEnabled, closing, EnableOnOpen,
                   monitors, op, MaxValuesPerTag, stats, call>>
    /\ UNCHANGED <<fieldVars, iterVars, restVars, seriesVars, indexVars>>

----------------------------------------------------------------------------
(* Specifications of the shard *)

DeleteArgs == { SeriesOf(pA) }

ShardStep(t, B) ==
    \/ \E o \in {"ok", "errIndex", "errEngine"} : Open(t, o)
    \/ OpenEnable(t)
    \/ \E e, i \in BOOLEAN : OpenFail(t, e, i)
    \/ \E e, i \in BOOLEAN : Close(t, e, i)
    \/ \E b \in BOOLEAN : SetEnabled(t, b)
    \/ \E o \in Ops : Ready(t, o)
    \/ RLock(t)
    \/ \E b \in B : WritePointsBody(t, b, Env(AllOK(b), FALSE, FALSE))
    \/ EngineCall(t)
    \/ \E e \in BOOLEAN, s \in DeleteArgs : EngineReturn(t, e, s)

\* no iterator, and the result of no call
nilItr == [nil |-> TRUE, elems |-> <<>>]
NoMatch == [called |-> FALSE, hang |-> FALSE, seen |-> 0, itr |-> nilItr]

\* no iterator was made and no tag value matched
\* the store, the series file iterator, the field codec and the
\* measurement filter are not in use
NoStore ==
    /\ stShards = [nil |-> TRUE, m |-> EmptyMap]
    /\ stOpen = {}
    /\ stGen = 0
    /\ stClosed = FALSE
    /\ stpc = [t \in Callers |-> "idle"]
    /\ stsh = [t \in Callers |-> <<>>]
    /\ stres = [t \in Callers |-> "none"]
NoSeriesIterator ==
    /\ sitSize = 1
    /\ sitW = <<>>
    /\ sitRanges = <<>>
    /\ sitpc = "idle"
    /\ sitItr = [made |-> FALSE, offset |-> 0, n |-> 0, out |-> <<>>, eof |-> FALSE,
                 panic |-> FALSE, existing |-> {}, pending |-> {}]
NoCodec ==
    /\ cdIn = <<>>
    /\ cdBuf = [encoded |-> FALSE, err |-> "none", b |-> <<>>]
    /\ cdOut = [done |-> FALSE, err |-> "none", values |-> EmptyMap]
NoMeasurementsByExpr ==
    /\ mbTags = EmptyMap
    /\ mbExpr = <<>>
    /\ mbRes = [done |-> FALSE, mms |-> <<>>, ok |-> FALSE, err |-> "none"]
NoRest == NoStore /\ NoSeriesIterator /\ NoCodec /\ NoMeasurementsByExpr

NoIterators ==
    /\ itrKind = "none"
    /\ itrIn = <<>>
    /\ itrItrs = <<>>
    /\ itrBuf = <<>>
    /\ itrOut = <<>>
    /\ itrEOF = FALSE
    /\ itrErr = FALSE
    /\ tagValues = <<>>
    /\ rxMatches = {}
    /\ matchItr = NoMatch

\* NewIndex: no series, no measurement, lastID 0
NewIndex ==
    /\ lastID = 0
    /\ iseries = EmptyMap
    /\ measurements = EmptyMap
    /\ mobjs = <<>>
    /\ ipc = [t \in Callers |-> "idle"]
    /\ iarg = [t \in Callers |-> <<>>]
    /\ ires = [t \in Callers |-> 0]
    /\ assigned = {}
    /\ added = <<>>

\* the components the shard specifications leave alone
InitOther ==
    /\ NewIndex
    /\ fpc = [t \in Callers |-> "idle"]
    /\ farg = [t \in Callers |-> <<>>]
    /\ fres = [t \in Callers |-> "none"]
    /\ sfdata = <<0>>
    /\ sfinmem = EmptyMap
    /\ sfdisk = EmptyMap
    /\ sfdiskN = 0
    /\ sfmaxOffset = 1
    /\ sfmapdata = "nil"
    /\ sfstate = "open"
    /\ spc = [t \in Callers |-> "idle"]
    /\ sarg = [t \in Callers |-> <<>>]
    /\ soffsets = [t \in Callers |-> <<>>]
    /\ sres = [t \in Callers |-> [offsets |-> <<>>, err |-> "none"]]

InitShardSpec == InitShard /\ InitIndex /\ MaxValuesPerTag = 0 /\ InitOther /\ NoIterators /\ NoRest

NextShardSeq ==
    \/ ShardStep("c1", SmallBatches)
    \/ \E o \in QueryOps : Query("c1", o)
    \/ \E b \in BOOLEAN : SetEnableOnOpen(b)
    \/ \E i \in MonitorIDs : MonitorExit(i)

NextShard ==
    \/ \E t \in Callers : ShardStep(t, SmallBatches)
    \/ \E i \in MonitorIDs : MonitorExit(i)

\* every operation of the shard that takes s.mu, from two callers
LockStep(t) ==
    \/ \E o \in {"ok", "errEngine"} : Open(t, o)
    \/ OpenEnable(t)
    \/ OpenFail(t, FALSE, FALSE)
    \/ Close(t, FALSE, FALSE)
    \/ \E b \in BOOLEAN : SetEnabled(t, b)
    \/ \E o \in {"WritePoints", "DeleteMeasurement"} : Ready(t, o)
    \/ RLock(t)
    \/ \E b \in SmallBatches : WritePointsBody(t, b, Env(AllOK(b), FALSE, FALSE))
    \/ EngineCall(t)
    \/ \E s \in DeleteArgs : EngineReturn(t, FALSE, s)
    \/ Restore(t, FALSE)
    \/ RestoreClose(t, FALSE, FALSE)
    \/ \E o \in {"Measurements", "CreateSnapshot"} : Query(t, o)

NextShardLocks ==
    \/ \E t \in Callers : LockStep(t)
    \/ \E i \in MonitorIDs : MonitorExit(i)

SpecShardLocks == InitShardSpec /\ [][NextShardLocks]_vars

SpecShardSeq == InitShardSpec /\ [][NextShardSeq]_vars

\* the same, with every monitor goroutine scheduled again and again
SpecShardFair ==
    SpecShardSeq /\ \A i \in MonitorIDs : WF_vars(MonitorExit(i))
SpecShard == InitShardSpec /\ [][NextShard]_vars

----------------------------------------------------------------------------
(* MeasurementFields of the measurement "cpu" under concurrent callers of   *)
(* CreateFieldIfNotExists; field names are numbers                         *)

\* fields that exist at the start, beside the empty schema
NearFull == 254
\* names of fields the callers may create
MaxNewFields == 2

\* the schema after the fields 1..n were created one after the other as
\* floats: the i-th call found i - 1 fields and gave the ID uint8(i)
createdFields(n) == [i \in 1..n |-> [ID |-> uint8(i), Type |-> "Float"]]

fields == mfields["cpu"]

NoArg == [name |-> 0, typ |-> "none"]

InitFields ==
    /\ NewIndex /\ NoIterators /\ NoRest
    /\ InitShard
    /\ series = {} /\ MaxValuesPerTag = 0 /\ stats = NoStats /\ call = NoCall
    /\ \E n \in {0, NearFull} : mfields = ("cpu" :> createdFields(n))
    /\ fpc = [t \in Callers |-> "idle"]
    /\ farg = [t \in Callers |-> NoArg]
    /\ fres = [t \in Callers |-> "none"]
    /\ sfdata = <<0>> /\ sfinmem = EmptyMap /\ sfdisk = EmptyMap /\ sfdiskN = 0
    /\ sfmaxOffset = 1 /\ sfmapdata = "nil" /\ sfstate = "open"
    /\ spc = [t \in Callers |-> "idle"]
    /\ sarg = [t \in Callers |-> <<>>]
    /\ soffsets = [t \in Callers |-> <<>>]
    /\ sres = [t \in Callers |-> [offsets |-> <<>>, err |-> "none"]]

\* CreateFieldIfNotExists up to m.mu.RUnlock()
FieldCheck(t, name, typ) ==
    /\ fpc[t] = "idle"
    /\ farg' = [farg EXCEPT ![t] = [name |-> name, typ |-> typ]]
    /\ LET c == fieldCheck(fields, name, typ)
       IN  IF c = "absent"
             THEN /\ fpc' = [fpc EXCEPT ![t] = "create"]
                  /\ fres' = [fres EXCEPT ![t] = "pending"]
             ELSE /\ fres' = [fres EXCEPT ![t] = c]
                  /\ UNCHANGED fpc
    /\ UNCHANGED <<shardVars, writeVars, iterVars, restVars, seriesVars, indexVars>>

\* CreateFieldIfNotExists from m.mu.Lock() to the return
FieldCreateLocked(t) ==
    /\ fpc[t] = "create"
    /\ LET r == fieldCreate(fields, farg[t].name, farg[t].typ)
       IN  /\ mfields' = [mfields EXCEPT !["cpu"] = r.fields]
           /\ fres' = [fres EXCEPT ![t] = r.err]
    /\ fpc' = [fpc EXCEPT ![t] = "idle"]
    /\ UNCHANGED <<shardVars, series, MaxValuesPerTag, stats, call, farg, iterVars, restVars,
                   seriesVars, indexVars>>

\* the field names the callers pass: one created at the start of a nearly
\* full schema, and new ones
FieldNames == {1} \cup (NearFull + 1)..(NearFull + MaxNewFields)

NextFields ==
    \/ \E t \in Callers, name \in FieldNames, typ \in {"Float", "Integer"} :
          FieldCheck(t, name, typ)
    \/ \E t \in Callers : FieldCreateLocked(t)

SpecFields == InitFields /\ [][NextFields]_vars

----------------------------------------------------------------------------
(* The Series File (tsi1): bytes are numbers 0..255, names, tag keys and   *)
(* tag values are sequences of bytes, offsets count from 0 as in the code  *)

\* the in-memory map is compacted to disk when it holds this many keys
\* (100000 in the code, scaled down so that compactions happen)
SeriesMapThreshold == 2
\* no call starts once the file is longer than this
MaxFileSize == 30

\* binary.PutUvarint
RECURSIVE PutUvarint(_)
PutUvarint(v) ==
    IF v < 128 THEN <<v>> ELSE <<(v % 128) + 128>> \o PutUvarint(v \div 128)

\* binary.Uvarint from position i of buf: [v, n], n the number of bytes read,
\* 0 when buf ends inside the number
RECURSIVE uvarintFrom(_, _, _)
uvarintFrom(buf, i, mult) ==
    IF i > Len(buf) THEN [v |-> 0, n |-> 0]
    ELSE IF buf[i] < 128 THEN [v |-> buf[i] * mult, n |-> i]
    ELSE LET r == uvarintFrom(buf, i + 1, mult * 128)
         IN  IF r.n = 0 THEN r
             ELSE [v |-> (buf[i] - 128) * mult + r.v, n |-> r.n]

Uvarint(buf) == uvarintFrom(buf, 1, 1)

\* binary.BigEndian.PutUint16
PutUint16(n) == <<(n \div 256) % 256, n % 256>>

RECURSIVE tagBytes(_)
tagBytes(tags) ==
    IF tags = <<>> THEN <<>>
    ELSE PutUint16(Len(Head(tags).Key)) \o Head(tags).Key
         \o PutUint16(Len(Head(tags).Value)) \o Head(tags).Value
         \o tagBytes(Tail(tags))

\* AppendSeriesKey(buf[:0], name, tags)
AppendSeriesKey(name, tags) ==
    LET body == PutUint16(Len(name)) \o name \o PutUvarint(Len(tags))
                \o tagBytes(tags)
    IN  PutUvarint(Len(body)) \o body

\* ReadSeriesKey: the key at the start of buf
ReadSeriesKey(buf) ==
    LET u == Uvarint(buf) IN SubSeq(buf, 1, u.n + u.v)

\* SeriesFile.SeriesKey; <<>> is nil
SeriesKey(data, offset) ==
    IF offset = 0 THEN <<>>
    ELSE ReadSeriesKey(SubSeq(data, offset + 1, Len(data)))

\* the keys of the file from offset on, in file order: [offset, key]
RECURSIVE fileKeys(_, _)
fileKeys(data, offset) ==
    IF offset >= Len(data) THEN <<>>
    ELSE LET key == SeriesKey(data, offset)
         IN  <<[offset |-> offset, key |-> key]>>
             \o fileKeys(data, offset + Len(key))

\* seriesMap.offset: the on-disk map, then the in-memory map, else 0
seriesMapOffset(disk, inmem, key) ==
    IF key \in DOMAIN disk THEN disk[key]
    ELSE IF key \in DOMAIN inmem THEN inmem[key]
    ELSE 0

\* the on-disk map as the series map sees it: nothing when data is nil
mapData == IF sfmapdata = "mapped" THEN sfdisk ELSE EmptyMap

\* SeriesFile.offset
offset(s) == seriesMapOffset(mapData, sfinmem, AppendSeriesKey(s.name, s.tags))

\* rhh.HashMap.Put
Put(m, key, val) == [k \in DOMAIN m \cup {key} |-> IF k = key THEN val ELSE m[k]]

\* the loop of CreateSeriesListIfNotExists under the write lock, from the
\* i-th series on: [offsets, data, newKeyRanges]
RECURSIVE createLoop(_, _, _)
createLoop(args, i, acc) ==
    IF i > Len(args) THEN acc
    ELSE IF acc.offsets[i] # 0 THEN createLoop(args, i + 1, acc)
    ELSE LET o == offset(args[i]) IN
         IF o # 0
           THEN createLoop(args, i + 1, [acc EXCEPT !.offsets[i] = o])
           ELSE LET buf == AppendSeriesKey(args[i].name, args[i].tags)
                    at  == Len(acc.data)
                IN  createLoop(args, i + 1,
                      [offsets      |-> [acc.offsets EXCEPT ![i] = at],
                       data         |-> acc.data \o buf,
                       newKeyRanges |-> Append(acc.newKeyRanges,
                                          [offset |-> at, size |-> Len(buf)])])

\* the loop that adds the new keys to the in-memory map
RECURSIVE putKeys(_, _, _)
putKeys(inmem, data, ranges) ==
    IF ranges = <<>> THEN inmem
    ELSE LET r == Head(ranges)
         IN  putKeys(Put(inmem, SubSeq(data, r.offset + 1, r.offset + r.size),
                         r.offset),
                     data, Tail(ranges))

\* encodeSeriesMap: the map of every key of the file to its offset
RECURSIVE encodeSeriesMap(_, _)
encodeSeriesMap(m, keys) ==
    IF keys = <<>> THEN m
    ELSE encodeSeriesMap(Put(m, Head(keys).key, Head(keys).offset), Tail(keys))

\* the series the callers name
bc == <<99>>
bm == <<109>>
bh == <<104>>
bTag(k, v) == [Key |-> k, Value |-> v]
sA == [name |-> bc, tags |-> <<bTag(bh, <<65>>)>>]
sB == [name |-> bc, tags |-> <<bTag(bh, <<66>>)>>]
sC == [name |-> bc, tags |-> <<bTag(bh, <<67>>)>>]
sM == [name |-> bm, tags |-> <<>>]
SeriesLists == { <<sA>>, <<sB>>, <<sC>>, <<sM, sA>>, <<sA, sA>> }

NoResult == [offsets |-> <<>>, err |-> "none"]

\* SeriesFile.Open on a new file: the single zero byte, empty maps
InitSeriesFile ==
    /\ sfdata = <<0>>
    /\ sfinmem = EmptyMap
    /\ sfdisk = EmptyMap
    /\ sfdiskN = 0
    /\ sfmaxOffset = 1
    /\ sfmapdata = "nil"
    /\ sfstate = "open"
    /\ spc = [t \in Callers |-> "idle"]
    /\ sarg = [t \in Callers |-> <<>>]
    /\ soffsets = [t \in Callers |-> <<>>]
    /\ sres = [t \in Callers |-> NoResult]

\* what compactSeriesMap can meet: no failure; a failure before the old map
\* is touched (encode, create, write or close of the temporary file, close
\* of the old map); a failed rename; a failed reopen
CompactOutcomes == {"ok", "errWrite", "errRename", "errReopen"}

\* seriesMap.open: the in-memory map rebuilt from the keys after maxOffset
openInmem(data, maxOffset) == encodeSeriesMap(EmptyMap, fileKeys(data, maxOffset))

\* CreateSeriesListIfNotExists under the read lock
SeriesLookup(t, args) ==
    /\ spc[t] = "idle" /\ Len(sfdata) <= MaxFileSize
    /\ \A u \in Callers : spc[u] # "panic"
    /\ sfstate # "closed"
    /\ sarg' = [sarg EXCEPT ![t] = args]
    /\ IF sfstate = "broken"
         THEN \* Get on the nil in-memory map
              /\ spc' = [spc EXCEPT ![t] = "panic"]
              /\ sres' = [sres EXCEPT ![t] = NoResult]
              /\ UNCHANGED soffsets
         ELSE LET offs == [i \in 1..Len(args) |-> offset(args[i])]
              IN  IF \E i \in 1..Len(args) : offs[i] = 0
                    THEN /\ spc' = [spc EXCEPT ![t] = "write"]
                         /\ soffsets' = [soffsets EXCEPT ![t] = offs]
                         /\ sres' = [sres EXCEPT ![t] = NoResult]
                    ELSE \* return nil, nil
                         /\ sres' = [sres EXCEPT ![t] = [offsets |-> <<>>, err |-> "nil"]]
                         /\ UNCHANGED <<spc, soffsets>>
    /\ UNCHANGED <<sfdata, sfinmem, sfdisk, sfdiskN, sfmaxOffset, sfmapdata, sfstate>>
    /\ UNCHANGED <<shardVars, writeVars, fieldVars, iterVars, restVars, indexVars>>

\* compactSeriesMap on the file data and the in-memory map, meeting c:
\* the map file, the series map and the error it leaves
compactSeriesMap(data, inmem, c) ==
    LET disk == encodeSeriesMap(EmptyMap, fileKeys(data, 1))
        n    == sfdiskN + Cardinality(DOMAIN inmem)
    IN  CASE c = "ok" ->
               [disk |-> disk, n |-> n, maxOffset |-> Len(data),
                mapdata |-> "mapped", inmem |-> openInmem(data, Len(data)),
                state |-> "open", err |-> "nil"]
          [] c = "errWrite" ->
               [disk |-> sfdisk, n |-> sfdiskN, maxOffset |-> sfmaxOffset,
                mapdata |-> sfmapdata, inmem |-> inmem,
                state |-> "open", err |-> "ErrCompact"]
          [] c = "errRename" ->
               \* the old map was closed before the rename
               [disk |-> sfdisk, n |-> sfdiskN, maxOffset |-> sfmaxOffset,
                mapdata |-> "nil", inmem |-> inmem,
                state |-> "open", err |-> "ErrCompact"]
          [] c = "errReopen" ->
               \* the new file is in place, f.seriesMap is a map that is not open
               [disk |-> disk, n |-> n, maxOffset |-> Len(data),
                mapdata |-> "nil", inmem |-> EmptyMap,
                state |-> "broken", err |-> "ErrCompact"]

\* CreateSeriesListIfNotExists under the write lock; flushErr: f.w.Flush
\* fails; c: what a compaction meets
SeriesWrite(t, flushErr, c) ==
    /\ spc[t] = "write"
    /\ \A u \in Callers : spc[u] # "panic"
    /\ soffsets' = [soffsets EXCEPT ![t] = <<>>]
    /\ UNCHANGED sarg
    /\ UNCHANGED <<shardVars, writeVars, fieldVars, iterVars, restVars, indexVars>>
    /\ IF sfstate # "open"
         THEN \* f.seriesMap is nil, or its in-memory map is
              /\ spc' = [spc EXCEPT ![t] = "panic"]
              /\ sres' = [sres EXCEPT ![t] = NoResult]
              /\ UNCHANGED <<sfdata, sfinmem, sfdisk, sfdiskN, sfmaxOffset,
                             sfmapdata, sfstate>>
         ELSE
          /\ spc' = [spc EXCEPT ![t] = "idle"]
          /\ LET r == createLoop(sarg[t], 1,
                    [offsets |-> soffsets[t], data |-> sfdata, newKeyRanges |-> <<>>])
                 inmem == putKeys(sfinmem, r.data, r.newKeyRanges)
                 m == compactSeriesMap(r.data, inmem, c)
                 ok == [offsets |-> r.offsets, err |-> "nil"]
                 failed(e) == [offsets |-> <<>>, err |-> e]
             IN  /\ sfdata' = r.data
                 /\ IF flushErr
                      THEN /\ sres' = [sres EXCEPT ![t] = failed("ErrFlush")]
                           /\ UNCHANGED <<sfinmem, sfdisk, sfdiskN, sfmaxOffset,
                                          sfmapdata, sfstate>>
                      ELSE IF Cardinality(DOMAIN inmem) >= SeriesMapThreshold
                      THEN /\ sres' = [sres EXCEPT ![t] =
                                         IF m.err = "nil" THEN ok ELSE failed(m.err)]
                           /\ sfdisk' = m.disk
                           /\ sfdiskN' = m.n
                           /\ sfmaxOffset' = m.maxOffset
                           /\ sfmapdata' = m.mapdata
                           /\ sfinmem' = m.inmem
                           /\ sfstate' = m.state
                      ELSE /\ sres' = [sres EXCEPT ![t] = ok]
                           /\ sfinmem' = inmem
                           /\ UNCHANGED <<sfdisk, sfdiskN, sfmaxOffset, sfmapdata,
                                          sfstate>>

\* SeriesFile.Close: the data is unmapped, the file closed, the series map
\* closed and dropped
SeriesFileClose ==
    /\ sfstate # "closed"
    /\ \A u \in Callers : spc[u] # "panic"
    /\ sfstate' = "closed"
    /\ sfmapdata' = "nil"
    /\ sfinmem' = EmptyMap
    /\ UNCHANGED <<sfdata, sfdisk, sfdiskN, sfmaxOffset, spc, sarg, soffsets, sres>>
    /\ UNCHANGED <<shardVars, writeVars, fieldVars, iterVars, restVars, indexVars>>

\* SeriesFile.Open on the closed file: the size is the file's, the series
\* map is read from its file and the keys after maxOffset are indexed
SeriesFileOpen ==
    /\ sfstate = "closed"
    /\ sfstate' = "open"
    /\ sfmapdata' = IF sfdisk = EmptyMap THEN "nil" ELSE "mapped"
    /\ sfinmem' = openInmem(sfdata, sfmaxOffset)
    /\ UNCHANGED <<sfdata, sfdisk, sfdiskN, sfmaxOffset, spc, sarg, soffsets, sres>>
    /\ UNCHANGED <<shardVars, writeVars, fieldVars, iterVars, restVars, indexVars>>

InitSeries ==
    /\ NewIndex /\ NoIterators /\ NoRest
    /\ InitShard /\ InitIndex /\ MaxValuesPerTag = 0
    /\ fpc = [t \in Callers |-> "idle"]
    /\ farg = [t \in Callers |-> NoArg]
    /\ fres = [t \in Callers |-> "none"]
    /\ InitSeriesFile

NextSeries ==
    \/ \E t \in Callers, args \in SeriesLists : SeriesLookup(t, args)
    \/ \E t \in Callers, e \in BOOLEAN, c \in CompactOutcomes : SeriesWrite(t, e, c)
    \/ SeriesFileClose
    \/ SeriesFileOpen

SpecSeries == InitSeries /\ [][NextSeries]_vars

\* ---------------------------------------------------------------------
\* The in-memory index: Measurement.addSeries / dropSeries and the Index
\* methods that create and drop series
\* ---------------------------------------------------------------------

\* no create starts once lastID has reached this
MaxLastID == 2
\* the ids a Measurement is handed directly
MaxSeriesID == 3

\* NewMeasurement
NewMeasurement(name) ==
    [Name |-> name, series |-> EmptyMap, seriesByID |-> EmptyMap,
     seriesByTagKeyValue |-> EmptyMap, seriesIDs |-> <<>>]

\* sort.Sort(seriesIDs)
sortIDs(ids) == SortSeq(ids, LAMBDA a, b : a < b)

\* append without the sort
appendUnsorted(ids, id) == Append(ids, id)

\* append(ids, id), sorted when the new id is below the one before it
appendID(ids, id) ==
    LET a == Append(ids, id)
    IN  IF Len(a) > 1 /\ a[Len(a)] < a[Len(a) - 1] THEN sortIDs(a) ELSE a

\* the loop of addSeries over the tags of the series
addTagIndex(idx, s) ==
    [k \in DOMAIN idx \cup DOMAIN s.Tags |->
        IF k \in DOMAIN s.Tags
          THEN LET valueMap == IF k \in DOMAIN idx THEN idx[k] ELSE EmptyMap
                   v        == s.Tags[k]
                   ids      == IF v \in DOMAIN valueMap THEN valueMap[v] ELSE <<>>
               IN  Put(valueMap, v, appendID(ids, s.ID))
          ELSE idx[k]]

\* Measurement.addSeries
addSeries(m, s) ==
    IF s.ID \in DOMAIN m.seriesByID THEN m
    ELSE [m EXCEPT !.seriesByID = Put(@, s.ID, s),
                   !.series = Put(@, s.Tags, s.ID),
                   !.seriesIDs = appendID(@, s.ID),
                   !.seriesByTagKeyValue = addTagIndex(@, s)]

\* delete(map, key)
delete(m, key) == [k \in DOMAIN m \ {key} |-> m[k]]

\* the ids of a list other than seriesID
without(ids, seriesID) == SelectSeq(ids, LAMBDA id : id # seriesID)

\* the loop of dropSeries over the tag index that leaves it as it is
keepTagIndex(idx, seriesID) == idx

\* the loop of dropSeries over the tag index: the id leaves every list, a
\* value without ids and a key without values are deleted
dropTagIndex(idx, seriesID) ==
    LET values(k) == [kk \in {x \in DOMAIN idx[k] : without(idx[k][x], seriesID) # <<>>}
                         |-> without(idx[k][kk], seriesID)]
    IN  [k \in {x \in DOMAIN idx : DOMAIN values(x) # {}} |-> values(k)]

\* Measurement.dropSeries
dropSeries(m, seriesID) ==
    IF seriesID \notin DOMAIN m.seriesByID THEN m
    ELSE [m EXCEPT !.series = delete(@, m.seriesByID[seriesID].Tags),
                   !.seriesByID = delete(@, seriesID),
                   !.seriesIDs = without(@, seriesID),
                   !.seriesByTagKeyValue = dropTagIndex(@, seriesID)]

\* the series the callers of the index name
tagsA  == [host |-> "A"]
tagsAX == [host |-> "A", region |-> "X"]
tagsB  == [host |-> "B"]
kA  == [Key |-> "cpu,host=A", name |-> "cpu", Tags |-> tagsA]
kAX == [Key |-> "cpu,host=A,region=X", name |-> "cpu", Tags |-> tagsAX]
IndexSeries == {kA, kAX}
IndexDropArgs == { <<kA.Key>>, <<kAX.Key, kA.Key>> }

\* series.ID = i.lastID + 1, with an id that repeats the last one
nextIDSame(last) == last

\* series.ID = i.lastID + 1
nextID(last) == last + 1

\* i.lastID++ left out
lastIDKept(last) == last

\* i.lastID++
lastIDInc(last) == last + 1

\* CreateSeriesIndexIfNotExists, the lookup under the read lock
IndexSeriesCheck(t, s) ==
    /\ ipc[t] = "idle" /\ lastID < MaxLastID
    /\ IF s.Key \in DOMAIN iseries
         THEN /\ ires' = [ires EXCEPT ![t] = iseries[s.Key].ID]
              /\ UNCHANGED <<ipc, iarg>>
         ELSE /\ ipc' = [ipc EXCEPT ![t] = "measurement"]
              /\ iarg' = [iarg EXCEPT ![t] = [s |-> s, m |-> 0]]
              /\ ires' = [ires EXCEPT ![t] = 0]
    /\ UNCHANGED <<lastID, iseries, measurements, mobjs, assigned>>
    /\ UNCHANGED <<shardVars, writeVars, fieldVars, iterVars, restVars, seriesVars, added>>

\* CreateMeasurementIndexIfNotExists, the lookup under the read lock
IndexMeasurementCheck(t) ==
    /\ ipc[t] = "measurement"
    /\ LET name == iarg[t].s.name
       IN  IF name \in DOMAIN measurements
             THEN /\ iarg' = [iarg EXCEPT ![t].m = measurements[name]]
                  /\ ipc' = [ipc EXCEPT ![t] = "create"]
             ELSE /\ ipc' = [ipc EXCEPT ![t] = "newMeasurement"]
                  /\ UNCHANGED iarg
    /\ UNCHANGED <<lastID, iseries, measurements, mobjs, ires, assigned>>
    /\ UNCHANGED <<shardVars, writeVars, fieldVars, iterVars, restVars, seriesVars, added>>

\* CreateMeasurementIndexIfNotExists under the write lock
IndexMeasurementCreate(t) ==
    /\ ipc[t] = "newMeasurement"
    /\ ipc' = [ipc EXCEPT ![t] = "create"]
    /\ LET name == iarg[t].s.name
       IN  IF name \in DOMAIN measurements
             THEN /\ iarg' = [iarg EXCEPT ![t].m = measurements[name]]
                  /\ UNCHANGED <<measurements, mobjs>>
             ELSE /\ mobjs' = Append(mobjs, NewMeasurement(name))
                  /\ measurements' = Put(measurements, name, Len(mobjs) + 1)
                  /\ iarg' = [iarg EXCEPT ![t].m = Len(mobjs) + 1]
    /\ UNCHANGED <<lastID, iseries, ires, assigned>>
    /\ UNCHANGED <<shardVars, writeVars, fieldVars, iterVars, restVars, seriesVars, added>>

\* CreateSeriesIndexIfNotExists under the write lock
IndexSeriesCreate(t) ==
    /\ ipc[t] = "create"
    /\ ipc' = [ipc EXCEPT ![t] = "idle"]
    /\ LET s == iarg[t].s
           m == iarg[t].m
           new == [Key |-> s.Key, ID |-> nextID(lastID), Tags |-> s.Tags, m |-> m]
       IN  IF s.Key \in DOMAIN iseries
             THEN /\ ires' = [ires EXCEPT ![t] = iseries[s.Key].ID]
                  /\ UNCHANGED <<lastID, iseries, mobjs, assigned>>
             ELSE /\ lastID' = lastIDInc(lastID)
                  /\ iseries' = Put(iseries, s.Key, new)
                  /\ mobjs' = [mobjs EXCEPT ![m] = addSeries(@, new)]
                  /\ assigned' = assigned \cup {<<s.Key, new.ID>>}
                  /\ ires' = [ires EXCEPT ![t] = new.ID]
    /\ iarg' = [iarg EXCEPT ![t] = <<>>]
    /\ UNCHANGED measurements
    /\ UNCHANGED <<shardVars, writeVars, fieldVars, iterVars, restVars, seriesVars, added>>

\* Index.dropMeasurement of every name of a set: each measurement leaves
\* i.measurements and its series leave i.series
dropMeasurement(ms, ser, objs, names) ==
    LET gone == {ms[n] : n \in names \cap DOMAIN ms}
        keys == {k \in DOMAIN ser :
                    \E o \in gone : \E id \in DOMAIN objs[o].seriesByID :
                        objs[o].seriesByID[id].Key = k}
    IN  [measurements |-> [n \in DOMAIN ms \ names |-> ms[n]],
         series       |-> [k \in DOMAIN ser \ keys |-> ser[k]]]

\* the loop of Index.DropSeries from the n-th key on: [series, objs, mToDelete]
RECURSIVE dropLoop(_, _, _)
dropLoop(keys, n, acc) ==
    IF n > Len(keys) THEN acc
    ELSE LET k == keys[n] IN
         IF k \notin DOMAIN acc.series THEN dropLoop(keys, n + 1, acc)
         ELSE LET ser  == acc.series[k]
                  objs == [acc.objs EXCEPT ![ser.m] = dropSeries(@, ser.ID)]
              IN  dropLoop(keys, n + 1,
                    [series    |-> delete(acc.series, k),
                     objs      |-> objs,
                     mToDelete |-> IF DOMAIN objs[ser.m].seriesByID = {}
                                     THEN acc.mToDelete \cup {objs[ser.m].Name}
                                     ELSE acc.mToDelete])

\* Index.DropSeries
IndexDropSeries(t, keys) ==
    /\ ipc[t] = "idle"
    /\ LET r == dropLoop(keys, 1, [series |-> iseries, objs |-> mobjs, mToDelete |-> {}])
           d == dropMeasurement(measurements, r.series, r.objs, r.mToDelete)
       IN  /\ mobjs' = r.objs
           /\ iseries' = d.series
           /\ measurements' = d.measurements
    /\ UNCHANGED <<lastID, ipc, iarg, ires, assigned>>
    /\ UNCHANGED <<shardVars, writeVars, fieldVars, iterVars, restVars, seriesVars, added>>

\* Index.DropMeasurement
IndexDropMeasurement(t, name) ==
    /\ ipc[t] = "idle"
    /\ LET d == dropMeasurement(measurements, iseries, mobjs, {name})
       IN  /\ iseries' = d.series
           /\ measurements' = d.measurements
    /\ UNCHANGED <<lastID, mobjs, ipc, iarg, ires, assigned>>
    /\ UNCHANGED <<shardVars, writeVars, fieldVars, iterVars, restVars, seriesVars, added>>

InitIndexSpec ==
    /\ InitShard /\ InitIndex /\ MaxValuesPerTag = 0 /\ InitOther /\ NoIterators /\ NoRest

NextIndex ==
    \/ \E t \in Callers, s \in IndexSeries : IndexSeriesCheck(t, s)
    \/ \E t \in Callers : IndexMeasurementCheck(t)
    \/ \E t \in Callers : IndexMeasurementCreate(t)
    \/ \E t \in Callers : IndexSeriesCreate(t)
    \/ \E t \in Callers, keys \in IndexDropArgs : IndexDropSeries(t, keys)
    \/ \E t \in Callers : IndexDropMeasurement(t, "cpu")

SpecIndex == InitIndexSpec /\ [][NextIndex]_vars

\* the Series File and the in-memory index side by side, one caller each
IDSeriesLists == { <<sA>>, <<sM, sA>> }

NextIDs ==
    \/ \E args \in IDSeriesLists : SeriesLookup("c1", args)
    \/ \E e \in BOOLEAN, c \in CompactOutcomes : SeriesWrite("c1", e, c)
    \/ SeriesFileClose
    \/ SeriesFileOpen
    \/ \E s \in IndexSeries : IndexSeriesCheck("c1", s)
    \/ IndexMeasurementCheck("c1")
    \/ IndexMeasurementCreate("c1")
    \/ IndexSeriesCreate("c1")
    \/ \E keys \in IndexDropArgs : IndexDropSeries("c1", keys)
    \/ IndexDropMeasurement("c1", "cpu")

SpecIDs == InitIndexSpec /\ [][NextIDs]_vars

\* one Measurement that is handed series and drops of its caller's choice
InitMeasurement ==
    /\ InitShard /\ InitIndex /\ MaxValuesPerTag = 0 /\ InitOther /\ NoIterators /\ NoRest

MeasurementSeries ==
    { [Key |-> "k", ID |-> id, Tags |-> tags, m |-> 1] :
        id \in 1..MaxSeriesID, tags \in {tagsA, tagsAX, tagsB} }

\* NewMeasurement, once
MeasurementNew ==
    /\ mobjs = <<>>
    /\ mobjs' = <<NewMeasurement("cpu")>>
    /\ UNCHANGED <<lastID, iseries, measurements, ipc, iarg, ires, assigned>>
    /\ UNCHANGED <<shardVars, writeVars, fieldVars, iterVars, restVars, seriesVars, added>>

\* Measurement.addSeries with a series of any id
MeasurementAddSeries(s) ==
    /\ mobjs # <<>>
    /\ mobjs' = [mobjs EXCEPT ![1] = addSeries(@, s)]
    /\ added' = IF s.ID \in DOMAIN mobjs[1].seriesByID THEN added
                ELSE Append(added, s.ID)
    /\ UNCHANGED <<lastID, iseries, measurements, ipc, iarg, ires, assigned>>
    /\ UNCHANGED <<shardVars, writeVars, fieldVars, iterVars, restVars, seriesVars>>

\* Measurement.dropSeries
MeasurementDropSeries(id) ==
    /\ mobjs # <<>>
    /\ mobjs' = [mobjs EXCEPT ![1] = dropSeries(@, id)]
    /\ added' = <<>>
    /\ UNCHANGED <<lastID, iseries, measurements, ipc, iarg, ires, assigned>>
    /\ UNCHANGED <<shardVars, writeVars, fieldVars, iterVars, restVars, seriesVars>>

NextMeasurement ==
    \/ MeasurementNew
    \/ \E s \in MeasurementSeries : MeasurementAddSeries(s)
    \/ \E id \in 1..MaxSeriesID : MeasurementDropSeries(id)

SpecMeasurement == InitMeasurement /\ [][NextMeasurement]_vars

\* the write path: the shard is open and enabled (NewShard, then Open) and
\* one caller writes batches
InitWrite ==
    /\ NewIndex
    /\ engine = "open" /\ index = "open"
    /\ enabled = TRUE /\ engineEnabled = TRUE
    /\ closing = FALSE
    /\ EnableOnOpen = TRUE
    /\ monitors = {1}
    /\ readers = {}
    /\ pc = [t \in Callers |-> "idle"]
    /\ op = [t \in Callers |-> "none"]
    /\ res = [t \in Callers |-> "none"]
    /\ InitIndex
    /\ InitOther /\ NoIterators /\ NoRest

NextWrite ==
    \/ Ready("c1", "WritePoints")
    \/ RLock("c1")
    \/ \E b \in Batches : \E env \in Envs(b) : WritePointsBody("c1", b, env)

SpecWrite == InitWrite /\ [][NextWrite]_vars

----------------------------------------------------------------------------
(* Series id iterators: merge, intersect, union, difference *)

\* series ids the source iterators yield
MaxIterID == 3

\* a residual expression by its meaning: the rows it holds for; no expression
\* is not the same as one that holds for every row
Rows == {"r1", "r2", "r3"}
nilExpr == [nil |-> TRUE, sat |-> {}]
exprA == [nil |-> FALSE, sat |-> {"r1", "r2"}]
exprB == [nil |-> FALSE, sat |-> {"r2", "r3"}]

\* influxql.Reduce of the BinaryExpr AND, OR of two expressions
ReduceAND(e0, e1) == [nil |-> FALSE, sat |-> e0.sat \cap e1.sat]
ReduceOR(e0, e1) == [nil |-> FALSE, sat |-> e0.sat \cup e1.sat]

\* SeriesIDElem
SeriesIDElem(id, e) == [SeriesID |-> id, Expr |-> e]
zeroElem == SeriesIDElem(0, nilExpr)

\* in the list a source iterator is made of: its Next returns an error here
errElem == [SeriesID |-> 0, Expr |-> [nil |-> TRUE, sat |-> {"error"}]]

\* a source iterator's Next: the element, what is left to yield, and whether
\* it returned an error
sourceNext(l) ==
    IF l = <<>> THEN [elem |-> zeroElem, rest |-> <<>>, err |-> FALSE]
    ELSE IF Head(l) = errElem THEN [elem |-> zeroElem, rest |-> Tail(l), err |-> TRUE]
    ELSE [elem |-> Head(l), rest |-> Tail(l), err |-> FALSE]

\* buf[i] with its SeriesID set to 0
clear(b, i) == [b EXCEPT ![i].SeriesID = 0]

\* "Fill buffers": buf[i] is filled from its source when its SeriesID is 0
fill(b, r, i) ==
    IF b[i].SeriesID = 0
      THEN LET n == sourceNext(r[i])
           IN  [buf |-> [b EXCEPT ![i] = n.elem], itrs |-> [r EXCEPT ![i] = n.rest],
                err |-> n.err]
      ELSE [buf |-> b, itrs |-> r, err |-> FALSE]

\* Next returns SeriesIDElem{} and the error of the source: [buf, itrs, elem, err]
failed(f) == [buf |-> f.buf, itrs |-> f.itrs, elem |-> zeroElem, err |-> TRUE]

\* Next returns elem and no error
returned(b, r, elem) == [buf |-> b, itrs |-> r, elem |-> elem, err |-> FALSE]

\* the first source's expression kept for an id that both have
intersectExprFirst(expr0, expr1) == expr0

\* seriesIDIntersectIterator.Next, "Attach expression"
intersectExpr(expr0, expr1) ==
    IF expr0.nil THEN expr1
    ELSE IF expr1.nil THEN expr0
    ELSE ReduceAND(expr0, expr1)

\* seriesIDIntersectIterator.Next: [buf, itrs, elem]
RECURSIVE intersectNext(_, _)
intersectNext(b, r) ==
    LET f0 == fill(b, r, 1)
        f1 == fill(f0.buf, f0.itrs, 2)
        bb == f1.buf
        a0 == bb[1].SeriesID
        a1 == bb[2].SeriesID
    IN  IF f0.err THEN failed(f0)
        ELSE IF f1.err THEN failed(f1)
        ELSE IF a0 = 0 \/ a1 = 0 THEN returned(bb, f1.itrs, zeroElem)
        ELSE IF a0 < a1 THEN intersectNext(clear(bb, 1), f1.itrs)
        ELSE IF a0 > a1 THEN intersectNext(clear(bb, 2), f1.itrs)
        ELSE returned(clear(clear(bb, 1), 2), f1.itrs,
                      [bb[1] EXCEPT !.Expr = intersectExpr(bb[1].Expr, bb[2].Expr)])

\* seriesIDUnionIterator.Next, "Attach expression"
unionExpr(expr0, expr1) ==
    IF ~expr0.nil /\ ~expr1.nil THEN ReduceOR(expr0, expr1) ELSE nilExpr

\* seriesIDUnionIterator.Next: [buf, itrs, elem]
unionNext(b, r) ==
    LET f0 == fill(b, r, 1)
        f1 == fill(f0.buf, f0.itrs, 2)
        bb == f1.buf
        a0 == bb[1].SeriesID
        a1 == bb[2].SeriesID
    IN  IF f0.err THEN failed(f0)
        ELSE IF f1.err THEN failed(f1)
        ELSE IF a1 = 0 \/ a0 < a1 THEN returned(clear(bb, 1), f1.itrs, bb[1])
        ELSE IF a0 = 0 \/ a0 > a1 THEN returned(clear(bb, 2), f1.itrs, bb[2])
        ELSE returned(clear(clear(bb, 1), 2), f1.itrs,
                      [bb[1] EXCEPT !.Expr = unionExpr(bb[1].Expr, bb[2].Expr)])

\* seriesIDDifferenceIterator.Next: [buf, itrs, elem]
RECURSIVE differenceNext(_, _)
differenceNext(b, r) ==
    LET f0 == fill(b, r, 1)
        f1 == fill(f0.buf, f0.itrs, 2)
        bb == f1.buf
        a0 == bb[1].SeriesID
        a1 == bb[2].SeriesID
    IN  IF f0.err THEN failed(f0)
        ELSE IF f1.err THEN failed(f1)
        ELSE IF a0 = 0 THEN returned(bb, f1.itrs, zeroElem)
        ELSE IF a1 = 0 \/ a0 < a1 THEN returned(clear(bb, 1), f1.itrs, bb[1])
        ELSE IF a0 > a1 THEN differenceNext(clear(bb, 2), f1.itrs)
        ELSE differenceNext(clear(clear(bb, 1), 2), f1.itrs)

\* the buffered element replaces the lowest found so far also when it ties
mergeLessOrEqual(b, elem) == elem.SeriesID = 0 \/ b.SeriesID <= elem.SeriesID

\* seriesIDMergeIterator.Next: the buffered element replaces the lowest found
mergeLess(b, elem) == elem.SeriesID = 0 \/ b.SeriesID < elem.SeriesID

\* seriesIDMergeIterator.Next when a source returns an error:
\* `return SeriesIDElem{}, nil`
mergeFailed(b, r) == [buf |-> b, itrs |-> r, elem |-> zeroElem, err |-> FALSE]

\* seriesIDMergeIterator.Next, the loop over the buffers from i on:
\* [buf, itrs, elem, err]
RECURSIVE mergeFind(_, _, _, _)
mergeFind(i, b, r, elem) ==
    IF i > Len(b) THEN returned(b, r, elem)
    ELSE IF b[i].SeriesID = 0
      THEN LET n == sourceNext(r[i])
               r2 == [r EXCEPT ![i] = n.rest]
               b2 == [b EXCEPT ![i] = n.elem]
           IN  IF n.err THEN mergeFailed(b, r2)
               ELSE IF n.elem.SeriesID = 0 THEN mergeFind(i + 1, b, r2, elem)
               ELSE mergeFind(i + 1, b2, r2,
                              IF mergeLess(b2[i], elem) THEN b2[i] ELSE elem)
      ELSE mergeFind(i + 1, b, r, IF mergeLess(b[i], elem) THEN b[i] ELSE elem)

\* only the first of the buffers that hold the element is cleared
mergeNextClearOne(b, r) ==
    LET f == mergeFind(1, b, r, zeroElem)
        i == CHOOSE j \in DOMAIN f.buf :
                /\ f.buf[j].SeriesID = f.elem.SeriesID
                /\ \A k \in 1..(j - 1) : f.buf[k].SeriesID # f.elem.SeriesID
    IN  IF f.elem.SeriesID = 0 THEN f ELSE [f EXCEPT !.buf = clear(f.buf, i)]

\* seriesIDMergeIterator.Next: [buf, itrs, elem]
mergeNext(b, r) ==
    LET f == mergeFind(1, b, r, zeroElem)
    IN  IF f.elem.SeriesID = 0 THEN f
        ELSE [f EXCEPT !.buf = [i \in DOMAIN f.buf |->
                                  IF f.buf[i].SeriesID = f.elem.SeriesID
                                    THEN [f.buf[i] EXCEPT !.SeriesID = 0]
                                    ELSE f.buf[i]]]

\* the ids of S in ascending order
RECURSIVE ascending(_)
ascending(S) ==
    IF S = {} THEN <<>>
    ELSE LET m == CHOOSE x \in S : \A y \in S : x <= y
         IN  <<m>> \o ascending(S \ {m})

\* the element lists in ascending id order with expressions from E
ElemLists(E) ==
    UNION { { [k \in DOMAIN ascending(S) |->
                 SeriesIDElem(ascending(S)[k], f[ascending(S)[k]])] :
              f \in [S -> E] } : S \in SUBSET (1..MaxIterID) }

\* the sources: the first with and without exprA, the second with and
\* without exprB, the third of a merge one of two lists without expressions
Sources0 == ElemLists({nilExpr, exprA})
Sources1 == ElemLists({nilExpr, exprB})
Sources2 == { <<>>, [k \in 1..MaxIterID |-> SeriesIDElem(k, nilExpr)] }

\* IntersectSeriesIDIterators, UnionSeriesIDIterators and
\* MergeSeriesIDIterators of two or three sources: the iterator as made
InitIter ==
    /\ \E a \in Sources0, b \in Sources1 :
          \/ itrKind \in {"intersect", "union", "merge"} /\ itrIn = <<a, b>>
          \/ \E c \in Sources2 : itrKind = "merge" /\ itrIn = <<a, b, c>>
    /\ itrItrs = itrIn
    /\ itrBuf = [i \in DOMAIN itrIn |-> zeroElem]
    /\ itrOut = <<>>
    /\ itrEOF = FALSE
    /\ itrErr = FALSE
    /\ tagValues = <<>>
    /\ rxMatches = {}
    /\ matchItr = NoMatch

\* one call of Next on the iterator, n what it computed
yield(n) ==
    /\ itrBuf' = n.buf
    /\ itrItrs' = n.itrs
    /\ itrOut' = IF n.elem.SeriesID = 0 THEN itrOut ELSE Append(itrOut, n.elem)
    /\ itrEOF' = (n.elem.SeriesID = 0 /\ ~n.err)
    /\ itrErr' = n.err
    /\ UNCHANGED <<itrKind, itrIn, tagValues, rxMatches, matchItr>>
    /\ UNCHANGED <<shardVars, writeVars, fieldVars, seriesVars, indexVars, restVars>>

IntersectNext ==
    itrKind = "intersect" /\ ~itrEOF /\ ~itrErr /\ yield(intersectNext(itrBuf, itrItrs))

UnionNext ==
    itrKind = "union" /\ ~itrEOF /\ ~itrErr /\ yield(unionNext(itrBuf, itrItrs))

MergeNext ==
    itrKind = "merge" /\ ~itrEOF /\ ~itrErr /\ yield(mergeNext(itrBuf, itrItrs))

NextIter == IntersectNext \/ UnionNext \/ MergeNext

InitRest == InitShard /\ InitIndex /\ MaxValuesPerTag = 0 /\ InitOther /\ NoRest

InitIterSpec == InitRest /\ InitIter

\* the element lists without expressions in which one Next returns an error
RECURSIVE failingAt(_, _)
failingAt(l, n) ==
    IF n = 0 THEN <<errElem>> \o l ELSE <<Head(l)>> \o failingAt(Tail(l), n - 1)
FailingSources ==
    UNION { { failingAt(l, n) : n \in 0..Len(l) } :
            l \in { x \in ElemLists({nilExpr}) : Len(x) < MaxIterID } }

\* the iterators made over two sources of which one fails
InitIterFailing ==
    /\ InitRest
    /\ itrKind \in {"intersect", "union", "merge"}
    /\ \E a \in FailingSources, b \in Sources1 : itrIn \in {<<a, b>>, <<b, a>>}
    /\ itrItrs = itrIn
    /\ itrBuf = [i \in DOMAIN itrIn |-> zeroElem]
    /\ itrOut = <<>>
    /\ itrEOF = FALSE
    /\ itrErr = FALSE
    /\ tagValues = <<>>
    /\ rxMatches = {}
    /\ matchItr = NoMatch

SpecIterFailing == InitIterFailing /\ [][NextIter]_vars

SpecIter == InitIterSpec /\ [][NextIter]_vars

----------------------------------------------------------------------------
(* Tag values matched by a regular expression *)

\* the values a tag can have, in byte order; NoValue for a series without
\* the key, and for the nil that ends a TagValueIterator
TagValueOrder == <<"a", "b">>
NoValue == ""

\* an iterator over the elements of l
itrOf(l) == [nil |-> FALSE, elems |-> l]

\* the series ids of S as an iterator without expressions, nil when S is empty
postings(S) ==
    IF S = {} THEN nilItr
    ELSE itrOf([k \in DOMAIN ascending(S) |-> SeriesIDElem(ascending(S)[k], nilExpr)])

\* the one index of the set: its iterator over the values of the key, over
\* the series of a value, and over the series of the measurement
idxTagValueIterator(tv) ==
    LET vals == SelectSeq(TagValueOrder, LAMBDA v : \E id \in DOMAIN tv : tv[id] = v)
    IN  [nil |-> vals = <<>>, values |-> vals]
idxTagValueSeriesIDIterator(tv, v) == postings({ id \in DOMAIN tv : tv[id] = v })
idxMeasurementSeriesIDIterator(tv) == postings(DOMAIN tv)

\* every element a merge yields until it reports the end
RECURSIVE mergeAll(_, _)
mergeAll(b, r) ==
    LET n == mergeNext(b, r)
    IN  IF n.elem.SeriesID = 0 THEN <<>> ELSE <<n.elem>> \o mergeAll(n.buf, n.itrs)

\* MergeSeriesIDIterators(itrs...)
MergeSeriesIDIterators(its) ==
    IF Len(its) = 0 THEN nilItr
    ELSE IF Len(its) = 1 THEN its[1]
    ELSE itrOf(mergeAll([i \in DOMAIN its |-> zeroElem],
                        [i \in DOMAIN its |-> its[i].elems]))

\* every element a difference yields until it reports the end
RECURSIVE differenceAll(_, _)
differenceAll(b, r) ==
    LET n == differenceNext(b, r)
    IN  IF n.elem.SeriesID = 0 THEN <<>>
        ELSE <<n.elem>> \o differenceAll(n.buf, n.itrs)

\* DifferenceSeriesIDIterators(itr0, itr1)
DifferenceSeriesIDIterators(itr0, itr1) ==
    IF ~itr0.nil /\ itr1.nil THEN itr0
    ELSE IF itr0.nil THEN nilItr
    ELSE itrOf(differenceAll(<<zeroElem, zeroElem>>, <<itr0.elems, itr1.elems>>))

\* IndexSet.TagValueIterator, MeasurementSeriesIDIterator and
\* TagValueSeriesIDIterator: the merge of what the indexes of the set return
\* that is not nil
notNil(its) == SelectSeq(its, LAMBDA i : ~i.nil)
TagValueIterator(tv) == idxTagValueIterator(tv)
MeasurementSeriesIDIterator(tv) ==
    MergeSeriesIDIterators(notNil(<<idxMeasurementSeriesIDIterator(tv)>>))
TagValueSeriesIDIterator(tv, v) ==
    MergeSeriesIDIterators(notNil(<<idxTagValueSeriesIDIterator(tv, v)>>))

\* value.Match(e)
Match(rx, e) == e \in rx

\* the test that ends the loop over the values: `else if e != nil { break }`
loopEnds(e) == e # NoValue

\* the loop over vitr.Next() of the four matchTagValue functions: the
\* iterators of the values e with Match(e) = want; [itrs, hang, seen], hang
\* when the loop cannot end, seen the number of values it calls Match on
RECURSIVE valueLoop(_, _, _, _, _)
valueLoop(vals, tv, rx, want, its) ==
    LET e == IF vals = <<>> THEN NoValue ELSE Head(vals)
    IN  IF loopEnds(e) THEN [itrs |-> its, hang |-> FALSE, seen |-> 0]
        ELSE IF vals = <<>> THEN [itrs |-> its, hang |-> TRUE, seen |-> 0]
        ELSE LET l == valueLoop(Tail(vals), tv, rx, want,
                                IF Match(rx, e) = want
                                  THEN Append(its, TagValueSeriesIDIterator(tv, e))
                                  ELSE its)
             IN  [l EXCEPT !.seen = @ + 1]

\* matchTagValueEqualEmptySeriesIDIterator: [hang, itr]
matchTagValueEqualEmptySeriesIDIterator(tv, rx) ==
    LET vitr == TagValueIterator(tv)
        l == valueLoop(vitr.values, tv, rx, FALSE, <<>>)
    IN  IF vitr.nil
          THEN [hang |-> FALSE, seen |-> 0, itr |-> MeasurementSeriesIDIterator(tv)]
        ELSE IF l.hang THEN [hang |-> TRUE, seen |-> l.seen, itr |-> nilItr]
        ELSE [hang |-> FALSE, seen |-> l.seen,
              itr |-> DifferenceSeriesIDIterators(MeasurementSeriesIDIterator(tv),
                                                  MergeSeriesIDIterators(l.itrs))]

\* matchTagValueEqualNotEmptySeriesIDIterator: [hang, itr]
matchTagValueEqualNotEmptySeriesIDIterator(tv, rx) ==
    LET vitr == TagValueIterator(tv)
        l == valueLoop(vitr.values, tv, rx, TRUE, <<>>)
    IN  IF vitr.nil THEN [hang |-> FALSE, seen |-> 0, itr |-> nilItr]
        ELSE IF l.hang THEN [hang |-> TRUE, seen |-> l.seen, itr |-> nilItr]
        ELSE [hang |-> FALSE, seen |-> l.seen, itr |-> MergeSeriesIDIterators(l.itrs)]

\* MatchTagValueSeriesIDIterator(name, key, value, true)
MatchTagValueSeriesIDIterator(tv, rx) ==
    IF Match(rx, "") THEN matchTagValueEqualEmptySeriesIDIterator(tv, rx)
    ELSE matchTagValueEqualNotEmptySeriesIDIterator(tv, rx)

\* the measurement has the series 1..MaxIterID, each with a value of the key
\* or without the key; the regex is given by what it matches
InitMatch ==
    /\ tagValues \in [1..MaxIterID -> {NoValue, "a", "b"}]
    /\ rxMatches \in SUBSET {"", "a", "b"}
    /\ matchItr = NoMatch
    /\ itrKind = "none"
    /\ itrIn = <<>>
    /\ itrItrs = <<>>
    /\ itrBuf = <<>>
    /\ itrOut = <<>>
    /\ itrEOF = FALSE
    /\ itrErr = FALSE

\* the series of the measurement for `key =~ rx`
MatchTagValue ==
    /\ ~matchItr.called
    /\ LET m == MatchTagValueSeriesIDIterator(tagValues, rxMatches)
       IN  matchItr' = [called |-> TRUE, hang |-> m.hang, seen |-> m.seen,
                        itr |-> m.itr]
    /\ UNCHANGED <<itrKind, itrIn, itrItrs, itrBuf, itrOut, itrEOF, itrErr,
                   tagValues, rxMatches>>
    /\ UNCHANGED <<shardVars, writeVars, fieldVars, seriesVars, indexVars, restVars>>

NextMatch == MatchTagValue

InitMatchSpec == InitRest /\ InitMatch

SpecMatch == InitMatchSpec /\ [][NextMatch]_vars

\* ---------------------------------------------------------------------
\* Store: CreateShard, Open, Close and WriteToShard
\* ---------------------------------------------------------------------

\* NewShard is called at most this many times
MaxShardGen == 3

ShardIDs == {1, 2}

\* everything but the store is idle
InitIdle ==
    InitShard /\ InitIndex /\ MaxValuesPerTag = 0 /\ InitOther /\ NoIterators

\* NewStore: the maps are nil
InitStore ==
    /\ InitIdle
    /\ NoStore
    /\ NoSeriesIterator /\ NoCodec /\ NoMeasurementsByExpr

\* a map assignment on the nil map ended the program
StoreRuns == \A t \in Callers : stpc[t] # "panic"

\* s.shards[shardID]: <<>> when the map has no such shard
shardOf(id) ==
    IF id \in DOMAIN stShards.m THEN <<id, stShards.m[id]>> ELSE <<>>

\* the Shard objects of s.shards
registered == { shardOf(id) : id \in DOMAIN stShards.m }

storeIdle ==
    UNCHANGED <<shardVars, writeVars, fieldVars, seriesVars, indexVars, iterVars,
                sitVars, codecVars, exprVars>>

\* Store.CreateShard; mkdirErr: os.MkdirAll fails
StoreCreateShard(t, id, mkdirErr) ==
    /\ StoreRuns /\ stpc[t] = "idle" /\ stGen < MaxShardGen
    /\ storeIdle
    /\ UNCHANGED <<stOpen, stClosed, stsh>>
    /\ IF id \in DOMAIN stShards.m
         THEN /\ stres' = [stres EXCEPT ![t] = "nil"]
              /\ UNCHANGED <<stShards, stGen, stpc>>
         ELSE IF mkdirErr
         THEN /\ stres' = [stres EXCEPT ![t] = "ErrMkdir"]
              /\ UNCHANGED <<stShards, stGen, stpc>>
         ELSE IF stShards.nil
         THEN \* s.databaseIndexes[database] = db on the nil map
              /\ stpc' = [stpc EXCEPT ![t] = "panic"]
              /\ UNCHANGED <<stShards, stGen, stres>>
         ELSE /\ stGen' = stGen + 1
              /\ stShards' = [stShards EXCEPT !.m = Put(stShards.m, id, stGen + 1)]
              /\ stres' = [stres EXCEPT ![t] = "nil"]
              /\ UNCHANGED stpc

\* loadShards: a new Shard for every shard directory, in the order of the ids
RECURSIVE loadShards(_, _, _)
loadShards(m, ids, gen) ==
    IF ids = {} THEN m
    ELSE LET id == CHOOSE x \in ids : \A y \in ids : x <= y
         IN  loadShards(Put(m, id, gen + 1), ids \ {id}, gen + 1)

\* Store.Open; onDisk: the shard directories under the path; loadErr:
\* ioutil.ReadDir fails
StoreOpen(t, onDisk, loadErr) ==
    /\ StoreRuns /\ stpc[t] = "idle"
    /\ stGen + Cardinality(onDisk) <= MaxShardGen
    /\ storeIdle
    /\ UNCHANGED <<stOpen, stpc, stsh>>
    /\ stClosed' = FALSE
    /\ IF loadErr
         THEN /\ stShards' = [nil |-> FALSE, m |-> EmptyMap]
              /\ stres' = [stres EXCEPT ![t] = "ErrLoad"]
              /\ UNCHANGED stGen
         ELSE /\ stShards' = [nil |-> FALSE, m |-> loadShards(EmptyMap, onDisk, stGen)]
              /\ stGen' = stGen + Cardinality(onDisk)
              /\ stres' = [stres EXCEPT ![t] = "nil"]

\* Store.Close; closeErr: the Close of the first shard of the loop fails
StoreClose(t, closeErr) ==
    /\ StoreRuns /\ stpc[t] = "idle"
    /\ storeIdle
    /\ UNCHANGED <<stGen, stpc, stsh>>
    /\ IF closeErr /\ registered # {}
         THEN /\ stres' = [stres EXCEPT ![t] = "ErrClose"]
              /\ UNCHANGED <<stShards, stOpen, stClosed>>
         ELSE /\ stOpen' = stOpen \ registered
              /\ stShards' = [nil |-> TRUE, m |-> EmptyMap]
              /\ stClosed' = TRUE
              /\ stres' = [stres EXCEPT ![t] = "nil"]

\* Store.WriteToShard, `sh, ok := s.shards[shardID]`: no lock is taken
StoreLookup(t, id) ==
    /\ StoreRuns /\ stpc[t] = "idle"
    /\ storeIdle
    /\ UNCHANGED <<stShards, stOpen, stGen, stClosed>>
    /\ IF shardOf(id) = <<>>
         THEN /\ stres' = [stres EXCEPT ![t] = "ErrShardNotFound"]
              /\ UNCHANGED <<stpc, stsh>>
         ELSE /\ stsh' = [stsh EXCEPT ![t] = shardOf(id)]
              /\ stpc' = [stpc EXCEPT ![t] = "found"]
              /\ stres' = [stres EXCEPT ![t] = "none"]

\* Store.WriteToShard, sh.Open()
StoreShardOpen(t, openErr) ==
    /\ StoreRuns /\ stpc[t] = "found"
    /\ storeIdle
    /\ UNCHANGED <<stShards, stGen, stClosed, stsh>>
    /\ IF openErr
         THEN /\ stpc' = [stpc EXCEPT ![t] = "idle"]
              /\ stres' = [stres EXCEPT ![t] = "ErrOpen"]
              /\ UNCHANGED stOpen
         ELSE /\ stOpen' = stOpen \cup {stsh[t]}
              /\ stpc' = [stpc EXCEPT ![t] = "opened"]
              /\ UNCHANGED stres

\* Store.WriteToShard, sh.WritePoints(points): ErrEngineClosed from a shard
\* that was closed in between
StoreShardWrite(t, writeErr) ==
    /\ StoreRuns /\ stpc[t] = "opened"
    /\ storeIdle
    /\ UNCHANGED <<stShards, stOpen, stGen, stClosed, stsh>>
    /\ stpc' = [stpc EXCEPT ![t] = "idle"]
    /\ stres' = [stres EXCEPT ![t] =
                   IF stsh[t] \notin stOpen THEN "ErrEngineClosed"
                   ELSE IF writeErr THEN "ErrWrite" ELSE "nil"]

NextStore ==
    \/ \E t \in Callers, id \in ShardIDs, e \in BOOLEAN : StoreCreateShard(t, id, e)
    \/ \E t \in Callers, d \in SUBSET ShardIDs, e \in BOOLEAN : StoreOpen(t, d, e)
    \/ \E t \in Callers, e \in BOOLEAN : StoreClose(t, e)
    \/ \E t \in Callers, id \in ShardIDs : StoreLookup(t, id)
    \/ \E t \in Callers, e \in BOOLEAN : StoreShardOpen(t, e)
    \/ \E t \in Callers, e \in BOOLEAN : StoreShardWrite(t, e)

SpecStore == InitStore /\ [][NextStore]_vars

\* ---------------------------------------------------------------------
\* FieldCodec: EncodeFields and DecodeFields
\* ---------------------------------------------------------------------

maxStringLength == 64 * 1024

\* uint16 conversion and arithmetic
uint16(n) == n % 65536

\* A byte slice is a sequence of runs [b, n]: n times the byte b.
RECURSIVE len(_)
len(r) == IF r = <<>> THEN 0 ELSE Head(r).n + len(Tail(r))

\* the same bytes with no empty run and no two runs of one byte in a row
RECURSIVE canon(_)
canon(r) ==
    IF r = <<>> THEN <<>>
    ELSE IF Head(r).n = 0 THEN canon(Tail(r))
    ELSE LET t == canon(Tail(r))
         IN  IF t # <<>> /\ Head(t).b = Head(r).b
               THEN <<[b |-> Head(r).b, n |-> Head(r).n + Head(t).n]>> \o Tail(t)
               ELSE <<Head(r)>> \o t

\* []byte{...}
bytes(seq) == canon([i \in 1..Len(seq) |-> [b |-> seq[i], n |-> 1]])

\* r[i]
RECURSIVE byteAt(_, _)
byteAt(r, i) == IF i < Head(r).n THEN Head(r).b ELSE byteAt(Tail(r), i - Head(r).n)

\* r[:k] and r[k:]
RECURSIVE take(_, _)
take(r, k) ==
    IF k = 0 \/ r = <<>> THEN <<>>
    ELSE IF k <= Head(r).n THEN <<[b |-> Head(r).b, n |-> k]>>
    ELSE <<Head(r)>> \o take(Tail(r), k - Head(r).n)
RECURSIVE drop(_, _)
drop(r, k) ==
    IF k = 0 \/ r = <<>> THEN r
    ELSE IF k < Head(r).n THEN <<[b |-> Head(r).b, n |-> Head(r).n - k]>> \o Tail(r)
    ELSE drop(Tail(r), k - Head(r).n)

\* r[lo:hi]
slice(r, lo, hi) == canon(take(drop(r, lo), hi - lo))

\* binary.BigEndian.PutUint64 and Uint64, on the n low bytes
RECURSIVE bigEndian(_, _)
bigEndian(v, n) == IF n = 0 THEN <<>> ELSE bigEndian(v \div 256, n - 1) \o <<v % 256>>
PutUint64(v) == bytes(bigEndian(v, 8))
RECURSIVE Uint64(_, _)
Uint64(r, n) == IF n = 0 THEN 0 ELSE Uint64(r, n - 1) * 256 + byteAt(r, n - 1)

\* binary.BigEndian.Uint16(b[1:3])
Uint16(r) == byteAt(r, 1) * 256 + byteAt(r, 2)

\* f.fieldsByID: the type of each field id of the codec
fieldsByID == [id \in {1, 2, 3} |->
                 CASE id = 1 -> "String" [] id = 2 -> "Integer" [] id = 3 -> "Boolean"]

\* a value of the map, with the field of the codec that has its name
Value(id, type, v) == [ID |-> id, Type |-> type, V |-> v]

\* the string of n bytes c
str(c, n) == canon(<<[b |-> c, n |-> n]>>)

\* the bytes EncodeFields appends for one value
encodeField(f) ==
    CASE fieldsByID[f.ID] = "Integer" -> bytes(<<f.ID>>) \o PutUint64(f.V)
      [] fieldsByID[f.ID] = "Boolean" -> bytes(<<f.ID, IF f.V THEN 1 ELSE 0>>)
      [] fieldsByID[f.ID] = "String" ->
           LET value == IF len(f.V) > maxStringLength
                          THEN take(f.V, maxStringLength) ELSE f.V
           IN  bytes(<<f.ID>>) \o bytes(PutUint16(uint16(len(value)))) \o value

\* FieldCodec.EncodeFields on the values in the order the loop ranges over
\* them: [err, b]
RECURSIVE EncodeFields(_, _)
EncodeFields(values, b) ==
    IF values = <<>> THEN [err |-> "nil", b |-> canon(b)]
    ELSE LET f == Head(values)
         IN  IF f.Type # fieldsByID[f.ID] THEN [err |-> "ErrFieldType", b |-> <<>>]
             ELSE EncodeFields(Tail(values), b \o encodeField(f))

\* FieldCodec.DecodeFields, the loop: [err, values]; "panic" is a slice or
\* an index out of range
RECURSIVE decodeLoop(_, _)
decodeLoop(b, values) ==
    LET panic == [err |-> "panic", values |-> EmptyMap]
        id    == byteAt(b, 0)
    IN  IF len(b) < 1 THEN [err |-> "nil", values |-> values]
        ELSE IF id \notin DOMAIN fieldsByID
          THEN [err |-> "ErrFieldUnmappedID", values |-> EmptyMap]
        ELSE CASE fieldsByID[id] = "Integer" ->
                    IF len(b) < 9 THEN panic
                    ELSE decodeLoop(drop(b, 9), Put(values, id, Uint64(drop(b, 1), 8)))
               [] fieldsByID[id] = "Boolean" ->
                    IF len(b) < 2 THEN panic
                    ELSE decodeLoop(drop(b, 2), Put(values, id, byteAt(b, 1) = 1))
               [] fieldsByID[id] = "String" ->
                    IF len(b) < 3 THEN panic
                    ELSE LET size == Uint16(b)
                             hi   == uint16(size + 3)
                         IN  IF hi < 3 \/ hi > len(b) THEN panic
                             ELSE decodeLoop(drop(b, hi), Put(values, id, slice(b, 3, hi)))

\* FieldCodec.DecodeFields
DecodeFields(b) ==
    IF len(b) = 0 THEN [err |-> "nil", values |-> EmptyMap]
    ELSE decodeLoop(b, EmptyMap)

\* the lengths of the string values, and their bytes, which are no field ids
StringLengths == {0, 1, 2, 65532, 65533, 65535, 65536, 65537, 100000}
StringBytes == {97, 98}

\* the values a point can have for the three fields of the codec; the last
\* one has not the type of its field
Values ==
    { Value(1, "String", str(c, n)) : c \in StringBytes, n \in StringLengths }
      \cup { Value(2, "Integer", v) : v \in {0, 1, 300} }
      \cup { Value(3, "Boolean", v) : v \in BOOLEAN }
      \cup { Value(3, "Integer", 1) }

\* a point with one or two fields
InitCodec ==
    /\ InitIdle
    /\ NoStore /\ NoSeriesIterator /\ NoMeasurementsByExpr
    /\ \E f \in Values, g \in Values :
          cdIn \in {<<f>>} \cup (IF f.ID # g.ID THEN {<<f, g>>} ELSE {})
    /\ cdBuf = [encoded |-> FALSE, err |-> "none", b |-> <<>>]
    /\ cdOut = [done |-> FALSE, err |-> "none", values |-> EmptyMap]

codecIdle ==
    UNCHANGED <<shardVars, writeVars, fieldVars, seriesVars, indexVars, iterVars,
                storeVars, sitVars, exprVars>>

CodecEncode ==
    /\ ~cdBuf.encoded
    /\ LET e == EncodeFields(cdIn, <<>>)
       IN  cdBuf' = [encoded |-> TRUE, err |-> e.err, b |-> e.b]
    /\ UNCHANGED <<cdIn, cdOut>>
    /\ codecIdle

CodecDecode ==
    /\ cdBuf.encoded /\ cdBuf.err = "nil" /\ ~cdOut.done
    /\ LET d == DecodeFields(cdBuf.b)
       IN  cdOut' = [done |-> TRUE, err |-> d.err, values |-> d.values]
    /\ UNCHANGED <<cdIn, cdBuf>>
    /\ codecIdle

NextCodec == CodecEncode \/ CodecDecode

SpecCodec == InitCodec /\ [][NextCodec]_vars

\* ---------------------------------------------------------------------
\* Index.MeasurementsByExpr
\* ---------------------------------------------------------------------

\* the measurement names in the order of MeasurementIterator and of
\* Measurements.Less
MeasurementOrder == <<"cpu", "disk", "mem">>

\* the names of the index, in that order
indexNames == SelectSeq(MeasurementOrder, LAMBDA n : n \in DOMAIN mbTags)

\* an expression: nil, a comparison `key op value` or `key op /rx/`, the
\* regex given by the strings it matches, or `lhs op rhs` with AND or OR
nilExprTree == [kind |-> "nil"]
Cmp(tok, key, val, rx) == [kind |-> "cmp", op |-> tok, key |-> key, val |-> val, rx |-> rx]
Bin(tok, lhs, rhs) == [kind |-> "bin", op |-> tok, lhs |-> lhs, rhs |-> rhs]

\* influxql.IsSystemName
IsSystemName(key) == key \in {"_fieldKeys", "_measurements", "_series", "_tagKeys", "_tags"}

\* sort.Sort(mms) on names that are in the order of the iterator
sorted(mms) == SelectSeq(MeasurementOrder, LAMBDA n : \E k \in 1..Len(mms) : mms[k] = n)

\* Index.measurementsByNameFilter
measurementsByNameFilter(tok, val, rx) ==
    LET matched(n) == CASE tok = "EQ" -> n = val
                        [] tok = "NEQ" -> n # val
                        [] tok = "EQREGEX" -> n \in rx
                        [] tok = "NEQREGEX" -> n \notin rx
    IN  sorted(SelectSeq(indexNames, matched))

\* Index.measurementsByTagFilter, the loop from the names on: a measurement
\* without the key is skipped, and the loop is left at the first append
RECURSIVE tagFilterLoop(_, _, _, _)
tagFilterLoop(names, tok, val, rx) ==
    IF names = <<>> THEN <<>>
    ELSE LET tagVals  == mbTags[Head(names)]
             tagMatch == IF tok \in {"EQ", "NEQ"} THEN val \in tagVals
                         ELSE \E v \in tagVals : v \in rx
         IN  IF tagVals = {} THEN tagFilterLoop(Tail(names), tok, val, rx)
             ELSE IF tagMatch = (tok \in {"EQ", "EQREGEX"}) THEN <<Head(names)>>
             ELSE tagFilterLoop(Tail(names), tok, val, rx)

measurementsByTagFilter(tok, val, rx) == sorted(tagFilterLoop(indexNames, tok, val, rx))

\* Measurements.union and Measurements.intersect of two sorted lists
union(a, b) ==
    sorted(SelectSeq(MeasurementOrder,
                     LAMBDA n : \/ \E k \in 1..Len(a) : a[k] = n
                                \/ \E k \in 1..Len(b) : b[k] = n))
intersect(a, b) ==
    sorted(SelectSeq(MeasurementOrder,
                     LAMBDA n : /\ \E k \in 1..Len(a) : a[k] = n
                                /\ \E k \in 1..Len(b) : b[k] = n))

\* Index.measurementsByExpr: [mms, ok, err]
RECURSIVE measurementsByExpr(_)
measurementsByExpr(e) ==
    LET result(mms, ok) == [mms |-> mms, ok |-> ok, err |-> "nil"]
    IN  CASE e.kind = "nil" -> result(<<>>, FALSE)
          [] e.kind = "cmp" ->
               IF e.key = "_name"
                 THEN result(measurementsByNameFilter(e.op, e.val, e.rx), TRUE)
               ELSE IF IsSystemName(e.key) THEN result(<<>>, FALSE)
               ELSE result(measurementsByTagFilter(e.op, e.val, e.rx), TRUE)
          [] e.kind = "bin" ->
               LET lhs == measurementsByExpr(e.lhs)
                   rhs == measurementsByExpr(e.rhs)
               IN  IF lhs.ok /\ rhs.ok
                     THEN IF e.op = "OR" THEN result(union(lhs.mms, rhs.mms), TRUE)
                          ELSE result(intersect(lhs.mms, rhs.mms), TRUE)
                   ELSE IF lhs.ok THEN result(lhs.mms, TRUE)
                   ELSE IF rhs.ok THEN result(rhs.mms, TRUE)
                   ELSE result(<<>>, FALSE)

TagValues == {"X", "Y"}

\* the comparisons of the tag key dc
TagCmps ==
    { Cmp(tok, "dc", v, {}) : tok \in {"EQ", "NEQ"}, v \in TagValues }
      \cup { Cmp(tok, "dc", "", rx) : tok \in {"EQREGEX", "NEQREGEX"}, rx \in SUBSET TagValues }

Exprs ==
    TagCmps
      \cup { nilExprTree, Cmp("EQ", "_name", "cpu", {}), Cmp("NEQ", "_name", "cpu", {}),
              Cmp("EQ", "_tags", "X", {}) }
      \cup { Bin(tok, l, r) : tok \in {"AND", "OR"},
                             l \in { c \in TagCmps : c.op = "EQ" },
                             r \in { c \in TagCmps : c.op \in {"EQ", "EQREGEX"} } }

\* an index of up to three measurements, each with series; for each the
\* values its series have for the key dc, none when no series has the key
InitExpr ==
    /\ InitIdle
    /\ NoStore /\ NoSeriesIterator /\ NoCodec
    /\ \E names \in SUBSET {"cpu", "disk", "mem"} : mbTags \in [names -> SUBSET TagValues]
    /\ mbExpr \in Exprs
    /\ mbRes = [done |-> FALSE, mms |-> <<>>, ok |-> FALSE, err |-> "none"]

MeasurementsByExpr ==
    /\ ~mbRes.done
    /\ LET r == measurementsByExpr(mbExpr)
       IN  mbRes' = [done |-> TRUE, mms |-> r.mms, ok |-> r.ok, err |-> r.err]
    /\ UNCHANGED <<mbTags, mbExpr>>
    /\ UNCHANGED <<shardVars, writeVars, fieldVars, seriesVars, indexVars, iterVars,
                   storeVars, sitVars, codecVars>>

NextExpr == MeasurementsByExpr

SpecExpr == InitExpr /\ [][NextExpr]_vars

\* ---------------------------------------------------------------------
\* SeriesFile.SeriesIDIterator, next to a create of series. In this
\* specification sfdata is the file as the mapping f.data shows it, and
\* f.size is sitSize: the create moves f.size when it hands a key to the
\* buffered writer, and the key is in the file after the flush.
\* ---------------------------------------------------------------------

InitSeriesIterator ==
    /\ InitIdle
    /\ NoStore /\ NoSeriesIterator /\ NoCodec /\ NoMeasurementsByExpr

seriesIteratorIdle ==
    UNCHANGED <<shardVars, writeVars, fieldVars, indexVars, iterVars, storeVars,
                codecVars, exprVars>>

\* CreateSeriesListIfNotExists up to f.w.Flush(), under the write lock: the
\* keys are in the writer and f.size is past them
SeriesAppend(args) ==
    /\ sitpc = "idle" /\ sfstate = "open" /\ Len(sfdata) <= MaxFileSize
    /\ \E i \in 1..Len(args) : offset(args[i]) = 0
    /\ LET r == createLoop(args, 1,
                  [offsets |-> [i \in 1..Len(args) |-> offset(args[i])],
                   data |-> sfdata, newKeyRanges |-> <<>>])
       IN  /\ sitW' = SubSeq(r.data, Len(sfdata) + 1, Len(r.data))
           /\ sitSize' = Len(r.data)
           /\ sitRanges' = r.newKeyRanges
    /\ sitpc' = "flush"
    /\ UNCHANGED <<sitItr, seriesVars>>
    /\ seriesIteratorIdle

\* CreateSeriesListIfNotExists from f.w.Flush() on: the keys are in the file
\* and in the map, which is compacted at the threshold; the flush and the
\* compactions of this specification succeed
SeriesFlush ==
    /\ sitpc = "flush"
    /\ LET data  == sfdata \o sitW
           inmem == putKeys(sfinmem, data, sitRanges)
           m     == compactSeriesMap(data, inmem, "ok")
       IN  /\ sfdata' = data
           /\ IF Cardinality(DOMAIN inmem) >= SeriesMapThreshold
                THEN /\ sfdisk' = m.disk
                     /\ sfdiskN' = m.n
                     /\ sfmaxOffset' = m.maxOffset
                     /\ sfmapdata' = m.mapdata
                     /\ sfinmem' = m.inmem
                ELSE /\ sfinmem' = inmem
                     /\ UNCHANGED <<sfdisk, sfdiskN, sfmaxOffset, sfmapdata>>
    /\ sitW' = <<>>
    /\ sitRanges' = <<>>
    /\ sitpc' = "idle"
    /\ UNCHANGED <<sitSize, sitItr, sfstate, spc, sarg, soffsets, sres>>
    /\ seriesIteratorIdle

\* SeriesFile.SeriesIDIterator: offset 1 and f.data[1:f.size], read without
\* the lock
SeriesIDIterator ==
    /\ ~sitItr.made
    /\ sitItr' = [made |-> TRUE, offset |-> 1, n |-> sitSize - 1, out |-> <<>>,
                  eof |-> FALSE, panic |-> FALSE,
                  existing |-> { fileKeys(sfdata, 1)[k].offset :
                                   k \in 1..Len(fileKeys(sfdata, 1)) },
                  pending |-> { sitRanges[k].offset : k \in 1..Len(sitRanges) }]
    /\ UNCHANGED <<sitSize, sitW, sitRanges, sitpc, seriesVars>>
    /\ seriesIteratorIdle

\* itr.data: the n bytes of the mapping from the offset on; the mapping
\* shows zero bytes after the end of the file
itrData ==
    [k \in 1..sitItr.n |->
       IF sitItr.offset + k <= Len(sfdata) THEN sfdata[sitItr.offset + k] ELSE 0]

\* seriesFileIterator.Next
SeriesIteratorNext ==
    /\ sitItr.made /\ ~sitItr.eof /\ ~sitItr.panic
    /\ LET u == Uvarint(itrData)
           l == u.v + u.n
       IN  sitItr' =
             IF sitItr.n = 0 THEN [sitItr EXCEPT !.eof = TRUE]
             ELSE IF l > sitItr.n
               THEN \* data[int(sz)+n:] past the end of the slice
                    [sitItr EXCEPT !.panic = TRUE]
             ELSE [sitItr EXCEPT !.out = Append(@, sitItr.offset),
                                 !.offset = @ + l,
                                 !.n = @ - l]
    /\ UNCHANGED <<sitSize, sitW, sitRanges, sitpc, seriesVars>>
    /\ seriesIteratorIdle

NextSeriesIterator ==
    \/ \E args \in SeriesLists : SeriesAppend(args)
    \/ SeriesFlush
    \/ SeriesIDIterator
    \/ SeriesIteratorNext

SpecSeriesIterator == InitSeriesIterator /\ [][NextSeriesIterator]_vars

----------------------------------------------------------------------------
(* Properties of the shard state check *)

\* the step in which caller t starts one of the six data operations, that
\* is, runs s.ready() for it
startsOp(t) ==
    /\ pc[t] = "idle" /\ op'[t] \in Ops
    /\ pc'[t] \in {"idle", "checked"}
    /\ <<pc[t], op[t], res[t]>> # <<pc'[t], op'[t], res'[t]>>

\* the caller is past ready() and has not returned
pastReady(t) == op[t] \in Ops /\ pc[t] \in {"checked", "locked", "inEngine"}

\* C1: when calls are made one after the other, a data operation started
\* on a closed shard returns ErrEngineClosed, one started on an open but
\* disabled shard returns ErrShardDisabled, and an operation goes on to the
\* engine only on a shard that is open and enabled.
C1_StateCheck ==
    /\ [][\A t \in Callers : startsOp(t) =>
            /\ engine = "nil" =>
                  pc'[t] = "idle" /\ res'[t] = "ErrEngineClosed"
            /\ engine # "nil" /\ ~enabled =>
                  pc'[t] = "idle" /\ res'[t] = "ErrShardDisabled"
            /\ engine # "nil" /\ enabled => pc'[t] = "checked"]_vars
    /\ [](\A t \in Callers : pastReady(t) => engine # "nil" /\ enabled)

\* a shard that was closed and opened again, then disabled, has refused a
\* data operation
C1_Witness ==
    /\ closing /\ engine # "nil" /\ ~enabled
    /\ pc["c1"] = "idle" /\ op["c1"] \in Ops /\ res["c1"] = "ErrShardDisabled"

\* C2: under every interleaving with Close, a data operation that did not
\* return ErrEngineClosed runs against a non-nil engine: it never uses the
\* handle after Close has set it to nil.
C2_NoUseAfterClose ==
    \A t \in Callers :
        op[t] \in Ops => /\ pc[t] # "panic"
                         /\ pastReady(t) => engine # "nil"

\* C21: Measurement, Measurements, MeasurementsByExpr, MeasurementFields and
\* CreateSnapshot return ErrEngineClosed on a closed shard and
\* ErrShardDisabled on a disabled one, without a call of the engine.
C21_QueriesChecked ==
    [][\A t \in Callers :
          pc[t] = "idle" /\ op'[t] \in QueryOps /\ pc'[t] # "idle" =>
              engine # "nil" /\ enabled]_vars

\* C22: whenever the shard is open, exactly one monitor goroutine runs.
C22_OneMonitor ==
    engine # "nil" => Cardinality(monitors) = 1

\* the processes and monitors are not dead
alive == NoPanic

\* C23: a monitor goroutine of a shard that Close has closed terminates.
C23_MonitorTerminates ==
    \A i \in MonitorIDs :
        (i \in monitors /\ engine = "nil") ~> (i \notin monitors \/ ~alive)

\* the shard was opened and closed and its monitor has returned
C23_Witness ==
    closing /\ engine = "nil" /\ monitors = {} /\ alive

\* the order in which the locks are to be taken
lockRank ==
    [Shard |-> 1, Index |-> 2, Measurement |-> 3, SeriesFile |-> 4, LogFile |-> 5]

\* the locks each path holds at once, in the order it takes them
lockPaths ==
    { <<"Shard", "Index", "Measurement">>,  \* WritePoints, the series of a point
      <<"Shard", "Measurement">>,           \* WritePoints, the fields of a point
      <<"Shard">>,                          \* Open, Close, SetEnabled, Restore
      <<"Index", "Measurement">>,           \* Index.DropSeries, Index.TagSets
      <<"Index">>,
      <<"SeriesFile">> }

\* caller t is inside a call and cannot take its next step
blocked(t) == pc[t] \notin {"idle", "panic"} /\ ~ENABLED LockStep(t)

idsOf(l) == { l[k].SeriesID : k \in DOMAIN l }
exprOf(l, id) == l[CHOOSE k \in DOMAIN l : l[k].SeriesID = id].Expr

\* every id once and in ascending order
ascendingOnce(l) == \A j, k \in DOMAIN l : j < k => l[j].SeriesID < l[k].SeriesID

\* the expression that holds where both hold
bothHold(e0, e1) == [nil |-> FALSE, sat |-> e0.sat \cap e1.sat]

\* C25: of two inputs in ascending id order the intersection yields exactly
\* the ids in both, each once and ascending; the residual of an id is the
\* AND of the two residuals when both have one, otherwise the one present
C25_Intersect ==
    itrKind = "intersect" /\ itrEOF =>
        /\ ascendingOnce(itrOut)
        /\ idsOf(itrOut) = idsOf(itrIn[1]) \cap idsOf(itrIn[2])
        /\ \A k \in DOMAIN itrOut :
              LET e0 == exprOf(itrIn[1], itrOut[k].SeriesID)
                  e1 == exprOf(itrIn[2], itrOut[k].SeriesID)
              IN  itrOut[k].Expr = CASE ~e0.nil /\ ~e1.nil -> bothHold(e0, e1)
                                     [] ~e0.nil /\ e1.nil -> e0
                                     [] OTHER -> e1

\* an intersection came to its end having yielded an id with the AND of two
\* residuals and an id with the second input's residual alone
C25_Witness ==
    /\ itrKind = "intersect" /\ itrEOF
    /\ \E k \in DOMAIN itrOut : itrOut[k].Expr = bothHold(exprA, exprB)
    /\ \E k \in DOMAIN itrOut :
          itrOut[k].Expr = exprB /\ exprOf(itrIn[1], itrOut[k].SeriesID).nil

\* C26: of two inputs in ascending id order the union yields exactly the
\* ids in at least one, each once and ascending; for an id in both the
\* residual is the OR of the two when both have one, and none otherwise
C26_Union ==
    itrKind = "union" /\ itrEOF =>
        /\ ascendingOnce(itrOut)
        /\ idsOf(itrOut) = idsOf(itrIn[1]) \cup idsOf(itrIn[2])
        /\ \A k \in DOMAIN itrOut :
              itrOut[k].SeriesID \in idsOf(itrIn[1]) \cap idsOf(itrIn[2]) =>
                  LET e0 == exprOf(itrIn[1], itrOut[k].SeriesID)
                      e1 == exprOf(itrIn[2], itrOut[k].SeriesID)
                  IN  itrOut[k].Expr =
                          IF ~e0.nil /\ ~e1.nil
                            THEN [nil |-> FALSE, sat |-> e0.sat \cup e1.sat]
                            ELSE nilExpr

\* the sources of the merge that yield id, in the order listed
sourcesOf(id) == { i \in DOMAIN itrIn : id \in idsOf(itrIn[i]) }
earliest(id) == CHOOSE i \in sourcesOf(id) : \A j \in sourcesOf(id) : i <= j

\* the ids several sources of the merge yield
tied == { id \in 1..MaxIterID : Cardinality(sourcesOf(id)) > 1 }

\* the AND of the residuals the sources i.. have for id, none when none has
RECURSIVE residualsAnded(_, _)
residualsAnded(i, id) ==
    IF i > Len(itrIn) THEN nilExpr
    ELSE LET rest == residualsAnded(i + 1, id)
         IN  IF i \notin sourcesOf(id) \/ exprOf(itrIn[i], id).nil THEN rest
             ELSE IF rest.nil THEN exprOf(itrIn[i], id)
             ELSE bothHold(exprOf(itrIn[i], id), rest)

\* the merge yields id once, with residual e
yieldsOnce(id, e) ==
    /\ Cardinality({ k \in DOMAIN itrOut : itrOut[k].SeriesID = id }) = 1
    /\ \A k \in DOMAIN itrOut : itrOut[k].SeriesID = id => itrOut[k].Expr = e

\* C27 as stated: an id that several sources of a merge yield is yielded
\* once, its residual the AND of the sources' residuals
C27_TiesAnded ==
    itrKind = "merge" /\ itrEOF =>
        \A id \in tied : yieldsOnce(id, residualsAnded(1, id))

\* C27: an id that several sources of a merge yield is yielded once, its
\* residual that of the earliest-listed source that yields it
C27_TiesFirst ==
    itrKind = "merge" /\ itrEOF =>
        \A id \in tied : yieldsOnce(id, exprOf(itrIn[earliest(id)], id))

\* a merge came to its end whose first two sources yield one id with
\* different residuals
C27_Witness ==
    /\ itrKind = "merge" /\ itrEOF
    /\ \E id \in tied :
          /\ {1, 2} \subseteq sourcesOf(id)
          /\ exprOf(itrIn[1], id) = exprA /\ exprOf(itrIn[2], id) = exprB

yieldsSeries(S) ==
    /\ ~matchItr.hang
    /\ matchItr.itr.elems = postings(S).elems

\* C29: for a regex that does not match the empty string, `key =~ rx`
\* yields exactly the series whose value for the key matches, ascending
C29_MatchNotEmpty ==
    matchItr.called /\ "" \notin rxMatches =>
        yieldsSeries({ id \in DOMAIN tagValues : tagValues[id] \in rxMatches })

\* C30: for a regex that matches the empty string, `key =~ rx` yields every
\* series of the measurement but those whose value for the key does not
\* match, the series without the key among them
C30_MatchEmpty ==
    matchItr.called /\ "" \in rxMatches =>
        yieldsSeries({ id \in DOMAIN tagValues :
                         tagValues[id] = NoValue \/ tagValues[id] \in rxMatches })

\* C32: a series iterator yields, in ascending order, exactly the series
\* that existed when it was made: every id it returns is the offset of a
\* series of that moment (or of one whose create was under way), a create
\* that goes on afterwards adds nothing, and at the end it has returned
\* every series that existed
C32_Snapshot ==
    sitItr.made =>
        /\ ~sitItr.panic
        /\ \A k \in 1..Len(sitItr.out) :
               /\ sitItr.out[k] \in sitItr.existing \cup sitItr.pending
               /\ k > 1 => sitItr.out[k - 1] < sitItr.out[k]
        /\ sitItr.eof =>
               sitItr.existing \subseteq { sitItr.out[k] : k \in 1..Len(sitItr.out) }

\* the measurement has a series that satisfies the predicate: a comparison
\* of the tag key with = or =~, or two of them joined by AND or OR
RECURSIVE satisfies(_, _)
satisfies(n, e) ==
    CASE e.kind = "cmp" /\ e.op = "EQ" -> e.val \in mbTags[n]
      [] e.kind = "cmp" /\ e.op = "EQREGEX" -> \E v \in mbTags[n] : v \in e.rx
      [] e.kind = "bin" /\ e.op = "AND" -> satisfies(n, e.lhs) /\ satisfies(n, e.rhs)
      [] e.kind = "bin" /\ e.op = "OR" -> satisfies(n, e.lhs) \/ satisfies(n, e.rhs)

\* the predicates of the tag key built from = and =~
RECURSIVE positive(_)
positive(e) ==
    CASE e.kind = "cmp" -> e.key = "dc" /\ e.op \in {"EQ", "EQREGEX"}
      [] e.kind = "bin" -> positive(e.lhs) /\ positive(e.rhs)
      [] OTHER -> FALSE

\* C31: for a resolvable tag predicate MeasurementsByExpr returns, sorted by
\* name, exactly the measurements that satisfy it, and the flag true
C31_ExactlyTheMatching ==
    mbRes.done /\ positive(mbExpr) =>
        /\ mbRes.ok /\ mbRes.err = "nil"
        /\ mbRes.mms = SelectSeq(indexNames, LAMBDA n : satisfies(n, mbExpr))

\* what decoding gives for a value: a string cut to 65535 bytes
decoded(f) ==
    IF f.Type = "String" /\ len(f.V) > 65535 THEN take(f.V, 65535) ELSE f.V

\* C33: a string value of more than 65535 bytes is encoded cut to its first
\* 65535 bytes: decoding the record gives that prefix for the field and the
\* values of the fields that follow it
C33_LongStringTruncated ==
    cdOut.done =>
        \A k \in 1..Len(cdIn) :
            cdIn[k].Type = "String" /\ len(cdIn[k].V) > 65535 =>
                /\ cdOut.err = "nil"
                /\ \A j \in k..Len(cdIn) :
                       /\ cdIn[j].ID \in DOMAIN cdOut.values
                       /\ cdOut.values[cdIn[j].ID] = decoded(cdIn[j])

\* the step of WriteToShard in which the caller opens its shard, or writes
\* the points to it
opensOrWrites(t) ==
    \/ stpc[t] = "found" /\ stpc'[t] = "opened"
    \/ stpc[t] = "opened" /\ stpc'[t] = "idle" /\ stres'[t] = "nil"

\* C40: WriteToShard opens and writes no shard after Store.Close has
\* returned: the shard it opens or writes is registered in the store at
\* that moment
C40_NoWriteAfterClose ==
    [][\A t \in Callers :
          opensOrWrites(t) => ~stClosed /\ stsh[t] \in registered]_vars

\* C39: the construction of the iterator for `key =~ rx` ends, and its scan
\* has called Match on every value of the key
C39_ScanEveryValue ==
    matchItr.called =>
        /\ ~matchItr.hang
        /\ matchItr.seen = Len(TagValueIterator(tagValues).values)

\* C17: Open on a shard that is already open returns nil and leaves the
\* engine and index handles, the enabled flags and the number of monitors
\* as they are, in the locked closure and in the rest of Open.
C17_OpenIdempotent ==
    [][\A t \in Callers :
          \/ pc[t] = "idle" /\ pc'[t] = "wasopen"
          \/ pc[t] = "wasopen" /\ pc'[t] = "idle"
          => /\ UNCHANGED <<engine, index, enabled, engineEnabled, monitors>>
             /\ pc'[t] = "idle" => res'[t] = "nil"]_vars

\* a step of Shard.Close by caller t
closes(t) ==
    /\ pc[t] = "idle" /\ op'[t] = "Close" /\ pc'[t] \in {"idle", "panic"}
    /\ \E e, i \in BOOLEAN : Close(t, e, i)

\* C18: Close completes without fault in every state, never reopens the
\* closing channel, and a Close made right after a Close that returned nil
\* returns nil and changes nothing.
C18_CloseIdempotent ==
    /\ [](\A t \in Callers : op[t] = "Close" => pc[t] # "panic")
    /\ [][\A t \in Callers : closes(t) =>
            /\ closing => closing'
            /\ op[t] = "Close" /\ res[t] = "nil" =>
                  /\ res'[t] = "nil"
                  /\ UNCHANGED <<engine, index, enabled, engineEnabled, closing,
                                 monitors>>]_vars

\* C19: when Open has opened a closed shard whose EnableOnOpen is false, the
\* shard is disabled: the state check of WritePoints gives ErrShardDisabled.
C19_OpenDisabled ==
    [][\A t \in Callers :
          pc[t] = "opened" /\ pc'[t] = "idle" /\ ~EnableOnOpen =>
              ~enabled' /\ ready' = "ErrShardDisabled"]_vars

\* C20: WritePoints hands points to the engine only while the shard is
\* enabled: not after SetEnabled(false) has returned, also when the call
\* passed its state check before.
C20_DisabledGatesWrites ==
    [][\A t \in Callers :
          pc[t] = "locked" /\ pc'[t] = "idle" /\ call'.handed => enabled]_vars

----------------------------------------------------------------------------
(* Properties of the write path, stated on the step in which WritePoints    *)
(* runs under the read lock and returns: unprimed variables are the shard  *)
(* before the batch, call' describes the batch and its outcome             *)

writes == pc["c1"] = "locked" /\ pc'["c1"] = "idle"

Range(f) == { f[i] : i \in DOMAIN f }

\* point i of batch b has a tag value the measurement does not have yet,
\* for a key that has reached max-values-per-tag
overLimit(b, i) ==
    /\ MaxValuesPerTag > 0
    /\ \E s \in series : s.name = b[i].name
    /\ \E k \in 1..Len(b[i].tags) :
          /\ b[i].tags[k].Value \notin TagValuesOf(series, b[i].name, b[i].tags[k].Key)
          /\ Cardinality(TagValuesOf(series, b[i].name, b[i].tags[k].Key))
                >= MaxValuesPerTag

\* point i of batch b has a field that the schema records with another type
conflicting(b, i) ==
    /\ b[i].name \in DOMAIN mfields
    /\ \E j \in 1..Len(b[i].fields) :
          /\ b[i].fields[j].Key \in DOMAIN mfields[b[i].name]
          /\ mfields[b[i].name][b[i].fields[j].Key].Type # b[i].fields[j].Type

\* point i is neither dropped nor without a field other than time
survives(b, env, i) ==
    ~overLimit(b, i) /\ env.oc[i] # "limit" /\ validField(b[i])

\* C3: when WritePoints hands a batch to engine.WritePoints, every point
\* that was not dropped by the max-values-per-tag check or by a LimitError and
\* that has a field other than time is among the points handed over, also
\* when its measurement had no field schema before the batch.
C3_SurvivorsHanded ==
    [][writes =>
        LET c == call' IN
        c.handed => \A i \in 1..Len(c.batch) :
                        survives(c.batch, c.env, i) => i \in Range(c.kept)]_vars

\* C4 as stated: whenever a point of the batch has a field whose type
\* differs from the recorded one, WritePoints fails with the field type
\* conflict, hands nothing to the engine and leaves the indexed series.
C4_AnyConflictFails ==
    [][writes =>
        LET c == call' IN
        (\E i \in 1..Len(c.batch) : conflicting(c.batch, i)) =>
            /\ c.err = "ErrFieldTypeConflict"
            /\ ~c.handed
            /\ series \subseteq series']_vars

\* validation gets to point i: it survives the max-values-per-tag check, its
\* series is created, and no point before it fails the batch
reached(b, env, i) ==
    /\ ~overLimit(b, i) /\ env.oc[i] = "ok"
    /\ \A j \in 1..(i - 1) :
          ~overLimit(b, j) /\ validField(b[j]) => env.oc[j] # "err"

\* C4 amended: when validation gets to a point that has a field whose type
\* differs from the recorded one, WritePoints fails with the field type
\* conflict, hands no point of the batch to the engine, and the series
\* indexed by earlier batches remain.
C4_ReachedConflictFails ==
    [][writes =>
        LET c == call' IN
        (\E i \in 1..Len(c.batch) :
             conflicting(c.batch, i) /\ reached(c.batch, c.env, i)) =>
            /\ c.err = "ErrFieldTypeConflict"
            /\ ~c.handed
            /\ series \subseteq series']_vars

\* a batch of two points failed on a type conflict while series of an
\* earlier batch are indexed
C4_Witness ==
    /\ call.err = "ErrFieldTypeConflict" /\ ~call.handed
    /\ Len(call.batch) = 2
    /\ \E s \in series : s.name = "cpu"
    /\ stats.WriteReqOK > 0

\* the number of points of the batch that are dropped
droppedOf(b, env) ==
    Cardinality({ i \in 1..Len(b) : overLimit(b, i) })
    + Cardinality({ i \in 1..Len(b) :
                      ~overLimit(b, i) /\ validField(b[i]) /\ env.oc[i] = "limit" })

\* C5: when a point is over the max-values-per-tag limit and nothing else
\* fails the batch (no type conflict, no failed series creation, no engine
\* write error), WritePoints returns the PartialWriteError with Dropped the
\* number of points dropped, creates no series for the dropped point and
\* writes the other points.
C5_LimitDrops ==
    [][writes =>
        LET c == call' IN
        \A i \in 1..Len(c.batch) :
          ( /\ overLimit(c.batch, i)
            /\ c.err \notin {"ErrFieldTypeConflict", "ErrCreateSeries",
                              "ErrEngineWrite"} ) =>
            /\ c.err = "PartialWriteError"
            /\ c.dropped = droppedOf(c.batch, c.env)
            /\ SeriesOf(stripTime(c.batch[i])) \notin series'
            /\ \A j \in 1..Len(c.batch) :
                  survives(c.batch, c.env, j) => j \in Range(c.kept)]_vars

\* the fields the index records: <<measurement, field name>>
fieldsOf(mfs) == UNION { { <<m, f>> : f \in DOMAIN mfs[m] } : m \in DOMAIN mfs }

\* the errors with which WritePoints returns before it calls the engine
FatalErrors == {"ErrFieldTypeConflict", "ErrCreateSeries"}

\* C34: a WritePoints that returns a fatal error leaves the index as it was:
\* no series and no field of the failed batch has been created.
C34_FatalLeavesIndex ==
    [][writes /\ call'.err \in FatalErrors =>
          series' = series /\ fieldsOf(mfields') = fieldsOf(mfields)]_vars

\* the tag keys of the points of batch b
keysOf(b) == UNION { { b[i].tags[k].Key : k \in 1..Len(b[i].tags) } : i \in 1..Len(b) }

\* C35: with max-values-per-tag N > 0 a batch on an existing measurement
\* never raises the number of values of a tag key above N: a key with at
\* most N values before the batch has at most N after it.
C35_LimitKept ==
    [][writes /\ MaxValuesPerTag > 0 =>
          \A i \in 1..Len(call'.batch) : \A k \in keysOf(call'.batch) :
              LET m == call'.batch[i].name
              IN  ( /\ Measurement(series, m)
                    /\ CardinalityBytes(series, m, k) <= MaxValuesPerTag )
                  => CardinalityBytes(series', m, k) <= MaxValuesPerTag]_vars

\* C36: every WritePoints that passes the state check adds one to WriteReq
\* and one to exactly one of WriteReqOK and WriteReqErr, so WriteReq =
\* WriteReqOK + WriteReqErr whenever no write is in progress.
C36_RequestsCounted ==
    /\ [][writes =>
            /\ stats'.WriteReq = stats.WriteReq + 1
            /\ stats'.WriteReqOK + stats'.WriteReqErr
                  = stats.WriteReqOK + stats.WriteReqErr + 1
            /\ stats'.WriteReqOK >= stats.WriteReqOK
            /\ stats'.WriteReqErr >= stats.WriteReqErr]_vars
    /\ [](pc["c1"] = "idle" => stats.WriteReq = stats.WriteReqOK + stats.WriteReqErr)

----------------------------------------------------------------------------
(* Properties of MeasurementFields.CreateFieldIfNotExists *)

\* caller t returns from CreateFieldIfNotExists in this step
fieldReturns(t) ==
    \/ fpc[t] = "create" /\ fpc'[t] = "idle"
    \/ fpc[t] = "idle" /\ fpc'[t] = "idle"
         /\ <<farg[t], fres[t]>> # <<farg'[t], fres'[t]>>

\* C6: a measurement never holds more than 255 fields: the call that would
\* create the 256th distinct field returns the field overflow error and
\* leaves the field set unchanged.
C6_FieldOverflow ==
    /\ [](Cardinality(DOMAIN fields) <= 255)
    /\ [][\A t \in Callers :
            ( /\ fpc[t] = "create" /\ fpc'[t] = "idle"
              /\ farg[t].name \notin DOMAIN fields
              /\ Cardinality(DOMAIN fields) >= 255 ) =>
                fres'[t] = "ErrFieldOverflow" /\ mfields' = mfields]_vars

\* C7: a call of CreateFieldIfNotExists that returns while the field is
\* registered with another type returns ErrFieldTypeConflict, also when
\* another caller registered the field between the read-locked check and
\* the write-locked re-check of this call; and a registered type never
\* changes.
C7_TypeFixed ==
    [][\A t \in Callers :
        /\ fieldReturns(t) =>
              LET a == farg'[t] IN
              (a.name \in DOMAIN fields /\ fields[a.name].Type # a.typ) =>
                  fres'[t] = "ErrFieldTypeConflict"
        /\ \A n \in DOMAIN fields :
              n \in DOMAIN fields' /\ fields'[n].Type = fields[n].Type]_vars

\* C8: field IDs are 1, 2, 3, ... in creation order: every ID is in 1..255,
\* no two fields share an ID, and the ID of a field never changes.
C8_FieldIDs ==
    /\ [](\A n \in DOMAIN fields :
            /\ fields[n].ID \in 1..255
            /\ \A m \in DOMAIN fields : m # n => fields[m].ID # fields[n].ID)
    /\ [][/\ \A n \in DOMAIN fields :
               n \in DOMAIN fields' /\ fields'[n].ID = fields[n].ID
          /\ \A n \in DOMAIN fields' \ DOMAIN fields :
               fields'[n].ID = Cardinality(DOMAIN fields) + 1]_vars

----------------------------------------------------------------------------
(* Properties of the Series File *)

\* tags sorted by key (keys of one byte)
RECURSIVE sortTags(_)
sortTags(tags) ==
    IF tags = <<>> THEN <<>>
    ELSE LET least == CHOOSE i \in 1..Len(tags) :
                        \A j \in 1..Len(tags) : tags[i].Key[1] <= tags[j].Key[1]
         IN  <<tags[least]>>
             \o sortTags(SubSeq(tags, 1, least - 1)
                         \o SubSeq(tags, least + 1, Len(tags)))

canonicalKey(s) == AppendSeriesKey(s.name, sortTags(s.tags))

\* C9: every series key is stored in the Series File exactly once, at a
\* single offset, also when a batch names the key twice or callers run
\* concurrently.
C9_StoredOnce ==
    LET ks == fileKeys(sfdata, 1) IN
    \A i, j \in 1..Len(ks) : i # j => ks[i].key # ks[j].key

\* C10: a call of CreateSeriesListIfNotExists that returns without error
\* returns, for every series it was asked for, an offset whose SeriesKey is
\* the canonical encoding of the series, created or already existing.
C10_OffsetsReturned ==
    \A t \in Callers :
        spc[t] = "idle" /\ sres[t].err = "nil" =>
            /\ Len(sres[t].offsets) = Len(sarg[t])
            /\ \A i \in 1..Len(sarg[t]) :
                  SeriesKey(sfdata, sres[t].offsets[i]) = canonicalKey(sarg[t][i])

\* C11: a key stored in the Series File at offset o is looked up at o
\* whenever the file is open: after further creates, after a compaction of
\* the series map, after Close then Open.
C11_NeverRenumbered ==
    sfstate = "open" =>
        LET ks == fileKeys(sfdata, 1) IN
        \A i \in 1..Len(ks) :
            seriesMapOffset(mapData, sfinmem, ks[i].key) = ks[i].offset

\* the ids of the lists of a Measurement
listIDs(m) ==
    Range(m.seriesIDs)
      \cup UNION { UNION { Range(m.seriesByTagKeyValue[k][v]) :
                             v \in DOMAIN m.seriesByTagKeyValue[k] } :
                     k \in DOMAIN m.seriesByTagKeyValue }

\* C12: no series has id 0: the first byte of the Series File is the zero
\* byte, every offset at which a key is stored, every offset of the series
\* maps and every offset a create returns is at least 1, and so is every id
\* of the in-memory index, in i.series and in the lists of the Measurements.
C12_NoZeroID ==
    /\ sfdata[1] = 0
    /\ LET ks == fileKeys(sfdata, 1) IN \A i \in 1..Len(ks) : ks[i].offset >= 1
    /\ \A k \in DOMAIN sfinmem : sfinmem[k] >= 1
    /\ \A k \in DOMAIN sfdisk : sfdisk[k] >= 1
    /\ \A t \in Callers : \A i \in 1..Len(sres[t].offsets) : sres[t].offsets[i] >= 1
    /\ \A k \in DOMAIN iseries : iseries[k].ID >= 1
    /\ \A a \in assigned : a[2] >= 1
    /\ \A o \in 1..Len(mobjs) : \A id \in listIDs(mobjs[o]) : id >= 1

\* a create returned offsets and the index holds a series
C12_Witness ==
    /\ sres["c1"].err = "nil" /\ sres["c1"].offsets # <<>>
    /\ DOMAIN iseries # {}
    /\ \E o \in 1..Len(mobjs) : listIDs(mobjs[o]) # {}

IndexKeys == { s.Key : s \in IndexSeries }

\* C13: a series the index creates, for a key never seen or for a key that
\* was dropped before, gets an id strictly greater than every id the index
\* has assigned before.
C13_NoReuse ==
    [][\A k \in IndexKeys :
          k \notin DOMAIN iseries /\ k \in DOMAIN iseries' =>
              \A a \in assigned : iseries'[k].ID > a[2]]_vars

\* a key was dropped and created again
C13_Witness ==
    \E k \in DOMAIN iseries :
        \E a \in assigned : a[1] = k /\ a[2] # iseries[k].ID

\* C14: when DropSeries returns, no key it was given is in i.series, and the
\* id of every series it dropped is in neither the series id list, the
\* series-by-id map nor any tag-value list of the series' Measurement.
C14_DroppedGone ==
    [][\A t \in Callers, keys \in IndexDropArgs :
          IndexDropSeries(t, keys) =>
              \A n \in 1..Len(keys) :
                  /\ keys[n] \notin DOMAIN iseries'
                  /\ keys[n] \in DOMAIN iseries =>
                        LET ser == iseries[keys[n]]
                        IN  /\ ser.ID \notin listIDs(mobjs'[ser.m])
                            /\ ser.ID \notin DOMAIN mobjs'[ser.m].seriesByID]_vars

\* a series was dropped from a Measurement that keeps other series
C14_Witness ==
    \E a \in assigned :
        /\ a[1] \notin DOMAIN iseries
        /\ \A o \in 1..Len(mobjs) : a[2] \notin listIDs(mobjs[o])
        /\ \E o \in 1..Len(mobjs) : listIDs(mobjs[o]) # {}

\* a source whose Next has returned its error to the iterator
hasFailed(i) ==
    /\ \E k \in 1..Len(itrIn[i]) : itrIn[i][k] = errElem
    /\ \A k \in 1..Len(itrItrs[i]) : itrItrs[i][k] # errElem

\* C38: when the Next of a source of a merge iterator has returned an error,
\* the Next of the merge iterator has returned that error, and neither the end
\* of the iteration nor an element
C38_MergeReturnsError ==
    (itrKind = "merge" /\ \E i \in DOMAIN itrIn : hasFailed(i)) => itrErr /\ ~itrEOF

\* C37: every series in the series map of the index belongs to a
\* measurement that is in the measurement map and lists the series among its
\* series ids, however creates and drops interleave.
C37_SeriesHaveMeasurement ==
    \A k \in DOMAIN iseries :
        LET ser == iseries[k]
            m   == mobjs[ser.m]
        IN  /\ m.Name \in DOMAIN measurements
            /\ measurements[m.Name] = ser.m
            /\ \E i \in 1..Len(m.seriesIDs) : m.seriesIDs[i] = ser.ID

\* a list of ids is strictly increasing
increasing(ids) == \A i \in 1..(Len(ids) - 1) : ids[i] < ids[i + 1]

\* C15: after any additions and drops, in whatever order the ids were
\* added, the series id list of a Measurement and each of its tag-value
\* lists is strictly increasing.
C15_ListsSorted ==
    \A o \in 1..Len(mobjs) :
        /\ increasing(mobjs[o].seriesIDs)
        /\ \A k \in DOMAIN mobjs[o].seriesByTagKeyValue :
              \A v \in DOMAIN mobjs[o].seriesByTagKeyValue[k] :
                  increasing(mobjs[o].seriesByTagKeyValue[k][v])

\* an id was added after a greater one, both under the same tag value
C15_Witness ==
    /\ \E i, j \in 1..Len(added) : i < j /\ added[i] > added[j]
    /\ \E k \in DOMAIN mobjs[1].seriesByTagKeyValue :
          \E v \in DOMAIN mobjs[1].seriesByTagKeyValue[k] :
              LET ids == mobjs[1].seriesByTagKeyValue[k][v]
              IN  \E i, j \in 1..Len(added) :
                     /\ i < j /\ added[i] > added[j]
                     /\ {added[i], added[j]} \subseteq Range(ids)

\* C16: when the rebuild of the on-disk series map fails, the map file and
\* its mapping are the ones from before, the series map is open, and every
\* key the file held is looked up at the offset it had before.
C16_FailedRebuild ==
    [][\A t \in Callers :
          spc[t] = "write" /\ spc'[t] = "idle" /\ sres'[t].err = "ErrCompact" =>
              /\ sfstate' = "open"
              /\ <<sfdisk', sfdiskN', sfmaxOffset', sfmapdata'>>
                   = <<sfdisk, sfdiskN, sfmaxOffset, sfmapdata>>
              /\ LET ks == fileKeys(sfdata, 1) IN
                 \A i \in 1..Len(ks) :
                     seriesMapOffset(
                         IF sfmapdata' = "mapped" THEN sfdisk' ELSE EmptyMap,
                         sfinmem', ks[i].key)
                       = seriesMapOffset(mapData, sfinmem, ks[i].key)]_vars

====
